---- MODULE Spec2Model ----
(***************************************************************************)
(* VGLSL (src/vglsl.h): a single-header GLSL preprocessor.                 *)
(*                                                                         *)
(* Text is a TLA+ string (a sequence of characters); a character is a      *)
(* string of length one, SubSeq(s, i, i).  A C pointer that may be NULL is *)
(* a tuple: NULL is <<>>, a pointer to the value v is <<v>>.               *)
(***************************************************************************)
EXTENDS Integers, Sequences, FiniteSets, TLC

VARIABLES
    ctx,              \* VglslContext of the parse in progress (with its config)
    stack,            \* locals of vglsl_parse_internal (frame 1) and of every
                      \* vglsl_process_include in progress (frames 2..)
    pc,               \* "parse": inside vglsl_parse_internal; "done": it returned
    result,           \* the VglslResult returned by the last parse
    source,           \* the text handed to the first parse
    pass,             \* 1: parsing source; 2: parsing the first parse's output
    g_virtual_paths,  \* the process-wide virtual include path table
    freed             \* per call of vglsl_free_result so far, the fields of result
                      \* whose buffer the call released

vars == <<ctx, stack, pc, result, source, pass, g_virtual_paths, freed>>

----------------------------------------------------------------------------
(* Sizes.  The fixed buffers of the source are scaled down so that their   *)
(* limits are reached by short lines; the source's value is in the comment.*)

VGLSL_MAX_LINE_LENGTH == 20
    \* src/vglsl.h:87, 4096: line_buffer, processed_line, expanded_line
VGLSL_MAX_DEFINES == 3
    \* src/vglsl.h:95, 256
IDENTIFIER_SIZE == 8
    \* src/vglsl.h:409 and 602, 256: char identifier[256], char name[256]
IF_STACK_SIZE == 4
    \* src/vglsl.h:155, 64: bool if_stack[64], if_taken[64]
OUTPUT_INITIAL_CAPACITY == 16
    \* src/vglsl.h:763, 4096
INCLUDE_FILENAME_SIZE == 512
FULL_PATH_SIZE == 1024

NULL == <<>>
Ptr(v) == <<v>>

NL == "\n"

----------------------------------------------------------------------------
(* Characters and C string functions                                       *)

CharAt(s, i) == IF i >= 1 /\ i <= Len(s) THEN SubSeq(s, i, i) ELSE "NUL"
    \* s[i-1] in C; the terminating '\0' (and nothing else) reads as "NUL"

From(s, i) == SubSeq(s, i, Len(s))
    \* the C string starting at s + (i-1)

Letters ==
    {"a","b","c","d","e","f","g","h","i","j","k","l","m",
     "n","o","p","q","r","s","t","u","v","w","x","y","z",
     "A","B","C","D","E","F","G","H","I","J","K","L","M",
     "N","O","P","Q","R","S","T","U","V","W","X","Y","Z"}
Digits == {"0","1","2","3","4","5","6","7","8","9"}

IsIdStart(c) == c \in Letters \/ c = "_"
IsIdChar(c) == c \in Letters \/ c \in Digits \/ c = "_"
IsBlank(c) == c = " " \/ c = "\t"

RECURSIVE strchr(_, _, _)
strchr(s, c, from) ==
    \* index of the first c in s at or after from, 0 when there is none
    IF from > Len(s) THEN 0
    ELSE IF SubSeq(s, from, from) = c THEN from
    ELSE strchr(s, c, from + 1)

RECURSIVE strstr(_, _, _)
strstr(s, needle, from) ==
    IF from + Len(needle) - 1 > Len(s) THEN 0
    ELSE IF SubSeq(s, from, from + Len(needle) - 1) = needle THEN from
    ELSE strstr(s, needle, from + 1)

RECURSIVE SkipBlanks(_, _)
SkipBlanks(s, i) ==
    \* while (*p == ' ' || *p == '\t') p++;
    IF IsBlank(CharAt(s, i)) THEN SkipBlanks(s, i + 1) ELSE i

RECURSIVE TrimEnd(_)
TrimEnd(s) ==
    IF Len(s) > 0 /\ CharAt(s, Len(s)) \in {" ", "\t", "\n", "\r"}
    THEN TrimEnd(SubSeq(s, 1, Len(s) - 1))
    ELSE s

trim_one_blank(str) ==
    \* vglsl_trim_whitespace with "if" for the "while" that skips leading blanks
    TrimEnd(IF IsBlank(CharAt(str, 1)) THEN From(str, 2) ELSE str)

vglsl_trim_whitespace(str) == TrimEnd(From(str, SkipBlanks(str, 1)))

vglsl_starts_with(str, prefix) ==
    Len(str) >= Len(prefix) /\ SubSeq(str, 1, Len(prefix)) = prefix

----------------------------------------------------------------------------
(* Error context and output accumulator                                    *)

set_error_line_zero(c, message, line, filename) ==
    \* vglsl_set_error that does not record the line
    IF c.has_error THEN c
    ELSE [c EXCEPT !.has_error = TRUE,
                   !.error_message = Ptr(message),
                   !.error_line = 0,
                   !.error_file = Ptr(filename)]

set_error_last_wins(c, message, line, filename) ==
    \* vglsl_set_error without the test that keeps the first error
    [c EXCEPT !.has_error = TRUE,
              !.error_message = Ptr(message),
              !.error_line = line,
              !.error_file = Ptr(filename)]

vglsl_set_error(c, message, line, filename) ==
    IF c.has_error THEN c
    ELSE [c EXCEPT !.has_error = TRUE,
                   !.error_message = Ptr(message),
                   !.error_line = line,
                   !.error_file = Ptr(filename)]

prepend_output(c, text) ==
    \* vglsl_append_output writing text in front of the accumulated output
    [ctx |-> [c EXCEPT !.output = text \o @], ok |-> TRUE]

vglsl_append_output(c, text) ==
    LET needed == Len(c.output) + Len(text) + 1
        doubled == c.output_capacity * 2
        grown == IF doubled < needed THEN needed * 2 ELSE doubled
        new_capacity == IF grown > c.config.max_output_size
                        THEN c.config.max_output_size ELSE grown
    IN  IF needed > c.output_capacity
        THEN IF needed > new_capacity
             THEN [ctx |-> vglsl_set_error(c, "Output size exceeded maximum limit", 0, ""),
                   ok |-> FALSE]
             ELSE [ctx |-> [c EXCEPT !.output = @ \o text,
                                     !.output_capacity = new_capacity],
                   ok |-> TRUE]
        ELSE [ctx |-> [c EXCEPT !.output = @ \o text], ok |-> TRUE]

----------------------------------------------------------------------------
(* Macro table                                                             *)

RECURSIVE find_define_from(_, _, _)
find_define_from(defines, name, i) ==
    IF i > Len(defines) THEN 0
    ELSE IF defines[i].name = name THEN i
    ELSE find_define_from(defines, name, i + 1)

find_define_skip_first(c, name) == find_define_from(c.defines, name, 2)
    \* the loop of vglsl_find_define started at i = 1

vglsl_find_define(c, name) == find_define_from(c.defines, name, 1)
    \* index of the define, 0 for NULL

add_function_define(c, name, value, params, param_count) ==
    \* vglsl_add_define registering every macro as a function macro
    [ctx |-> [c EXCEPT !.defines =
                  Append(@, [name |-> name, value |-> value, params |-> params,
                             param_count |-> param_count, is_function_macro |-> TRUE])],
     ok |-> TRUE]

vglsl_add_define(c, name, value, params, param_count) ==
    IF Len(c.defines) >= VGLSL_MAX_DEFINES
    THEN [ctx |-> vglsl_set_error(c, "Too many defines", 0, ""), ok |-> FALSE]
    ELSE LET existing == vglsl_find_define(c, name)
             entry == [name |-> name,
                       value |-> value,
                       params |-> IF param_count > 0 THEN params ELSE <<>>,
                       param_count |-> param_count,
                       is_function_macro |-> param_count > 0]
         IN  [ctx |-> IF existing # 0
                      THEN [c EXCEPT !.defines[existing] = entry]
                      ELSE [c EXCEPT !.defines = Append(@, entry)],
              ok |-> TRUE]

remove_first_define(c, name) ==
    \* vglsl_remove_define taking entry 0 for the entry found
    IF c.defines = <<>> THEN c ELSE [c EXCEPT !.defines = Tail(@)]

vglsl_remove_define(c, name) ==
    LET i == vglsl_find_define(c, name)
    IN  IF i = 0 THEN c
        ELSE [c EXCEPT !.defines = SubSeq(@, 1, i - 1) \o SubSeq(@, i + 1, Len(@))]

----------------------------------------------------------------------------
(* Comment stripper                                                        *)

RECURSIVE remove_comments_loop(_, _, _, _)
remove_comments_loop(line, pos, in_string, string_char) ==
    IF pos > Len(line) THEN line
    ELSE LET c == CharAt(line, pos)
             c1 == CharAt(line, pos + 1)
         IN  IF ~in_string /\ (c = "\"" \/ c = "'")
             THEN remove_comments_loop(line, pos + 1, TRUE, c)
             ELSE IF in_string /\ c = string_char
                     /\ (pos = 1 \/ CharAt(line, pos - 1) # "\\")
             THEN remove_comments_loop(line, pos + 1, FALSE, string_char)
             ELSE IF ~in_string /\ c = "/" /\ c1 = "/"
             THEN SubSeq(line, 1, pos - 1)
             ELSE IF ~in_string /\ c = "/" /\ c1 = "*"
             THEN LET end == strstr(line, "*/", pos + 2)
                  IN  IF end # 0
                      THEN remove_comments_loop(
                               SubSeq(line, 1, pos - 1) \o From(line, end + 2),
                               pos, in_string, string_char)
                      ELSE SubSeq(line, 1, pos - 1)
             ELSE remove_comments_loop(line, pos + 1, in_string, string_char)

keep_comments(line) == line
    \* vglsl_remove_comments returning at once

vglsl_remove_comments(line) == remove_comments_loop(line, 1, FALSE, "NUL")

----------------------------------------------------------------------------
(* Macro expander                                                          *)

RECURSIVE IdEnd(_, _)
IdEnd(s, i) ==
    \* while (*src is a letter, a digit or '_') src++;
    IF IsIdChar(CharAt(s, i)) THEN IdEnd(s, i + 1) ELSE i

RECURSIVE expand_macros_loop(_, _, _, _, _)
expand_macros_loop(c, input, src, dst, remaining) ==
    \* src: index into input; dst: the output written so far
    IF src > Len(input) \/ remaining <= 0 THEN [ok |-> TRUE, output |-> dst]
    ELSE IF IsIdStart(CharAt(input, src))
    THEN LET id_end == IdEnd(input, src)
             id_len == id_end - src
             identifier == SubSeq(input, src, id_end - 1)
         IN  IF id_len < IDENTIFIER_SIZE
             THEN LET define == vglsl_find_define(c, identifier)
                  IN  IF define # 0 /\ ~c.defines[define].is_function_macro
                      THEN LET value == c.defines[define].value
                           IN  IF Len(value) <= remaining
                               THEN expand_macros_loop(c, input, id_end, dst \o value,
                                                       remaining - Len(value))
                               ELSE [ok |-> FALSE, output |-> dst]
                      ELSE IF id_len <= remaining
                           THEN expand_macros_loop(c, input, id_end, dst \o identifier,
                                                   remaining - id_len)
                           ELSE [ok |-> FALSE, output |-> dst]
             ELSE [ok |-> FALSE, output |-> dst]
    ELSE expand_macros_loop(c, input, src + 1, dst \o CharAt(input, src), remaining - 1)

expand_macros_rescan(c, input, output_size) ==
    \* vglsl_expand_macros scanning the substituted text once more
    LET once == expand_macros_loop(c, input, 1, "", output_size - 1)
    IN  IF once.ok
        THEN expand_macros_loop(c, once.output, 1, "", output_size - 1)
        ELSE once

vglsl_expand_macros(c, input, output_size) ==
    expand_macros_loop(c, input, 1, "", output_size - 1)

----------------------------------------------------------------------------
(* Files and the virtual include path table                                *)

Files ==
    \* the files vglsl_read_file can open: path :> content
    ("b/f" :> "u\nv\n") @@
    ("b/g" :> "p\n#include \"f\"\nq") @@
    ("r/f" :> "w\n") @@
    ("b/d" :> "#define M 8\nM\n") @@
    ("b/e" :> "k\n#include <x\n") @@
    ("b/h" :> "#define A 1\n#define B 2\n#define C 3\n") @@
    ("b/l" :> "aaaaaaaaaaaaaaaaaaaaaa\n") @@
    ("b/s" :> "#include \"s\"\ny\n") @@
    ("b/p" :> "#include \"q\"\n") @@
    ("b/q" :> "i\n#include \"p\"\n") @@
    ("b/m" :> "#include \"n\"\n") @@
    ("b/o" :> "#ifdef U\nh\n") @@
    ("b/c" :> "#endif\nj\n") @@
    ("b/w" :> "#ifdef U\n#include \"w\"\n") @@
    ("b/a" :> "#define B 1\nA\n")

vglsl_read_file(filename) ==
    \* NULL when the file cannot be opened or is empty (size <= 0)
    IF filename \in DOMAIN Files /\ Len(Files[filename]) > 0
    THEN Ptr(Files[filename])
    ELSE NULL

snprintf(size, text) ==
    \* snprintf(buf, size, ...) keeps at most size - 1 characters
    IF Len(text) > size - 1 THEN SubSeq(text, 1, size - 1) ELSE text

RECURSIVE IntToStr(_)
IntToStr(n) ==
    \* "%d" of a non-negative int
    IF n < 10 THEN SubSeq("0123456789", n + 1, n + 1)
    ELSE IntToStr(n \div 10) \o SubSeq("0123456789", (n % 10) + 1, (n % 10) + 1)

RECURSIVE resolve_virtual_path_from(_, _, _)
resolve_virtual_path_from(include_path, slash, i) ==
    IF i > Len(g_virtual_paths) THEN NULL
    ELSE IF g_virtual_paths[i].virtual_name = SubSeq(include_path, 1, slash - 1)
    THEN Ptr(snprintf(FULL_PATH_SIZE,
                      g_virtual_paths[i].real_path \o From(include_path, slash)))
    ELSE resolve_virtual_path_from(include_path, slash, i + 1)

resolve_without_slash(include_path) ==
    \* vglsl_resolve_virtual_path joining real_path and the text after the slash
    LET slash == strchr(include_path, "/", 1)
        hits == {i \in 1..Len(g_virtual_paths) :
                     g_virtual_paths[i].virtual_name = SubSeq(include_path, 1, slash - 1)}
    IN  IF slash = 0 \/ hits = {} THEN NULL
        ELSE Ptr(g_virtual_paths[CHOOSE i \in hits : \A j \in hits : i <= j].real_path
                 \o From(include_path, slash + 1))

vglsl_resolve_virtual_path(include_path) ==
    LET slash == strchr(include_path, "/", 1)
    IN  IF slash = 0 THEN NULL
        ELSE resolve_virtual_path_from(include_path, slash, 1)

----------------------------------------------------------------------------
(* Include resolver: vglsl_process_include up to the point where it starts *)
(* to read the included file's lines.  call is NULL when it returned       *)
(* before that point, and else points to the opened file.                  *)

Failed(c) == [ctx |-> c, ok |-> FALSE, call |-> NULL]
Returned(r) == [ctx |-> r.ctx, ok |-> r.ok, call |-> NULL]

depth_exceeded_silent(c, line_num, filename) ==
    \* giving up at the depth limit without recording an error
    [ctx |-> c, ok |-> FALSE, call |-> NULL]

\* the refusal of an #include at the depth limit
DepthExceeded(c, line_num, filename) ==
    Failed(vglsl_set_error(c, "Maximum include depth exceeded", line_num, filename))

vglsl_process_include(c, directive, line_num, filename) ==
    IF c.include_depth >= c.config.max_include_depth
    THEN DepthExceeded(c, line_num, filename)
    ELSE
    LET quote_start == strchr(directive, "\"", 1)
        angle_start == strchr(directive, "<", 1)
        is_quote == quote_start # 0 /\ (angle_start = 0 \/ quote_start < angle_start)
        is_angle_include == ~is_quote /\ angle_start # 0
        start == IF is_quote THEN quote_start + 1
                 ELSE IF is_angle_include THEN angle_start + 1 ELSE 0
        end_char == IF is_quote THEN "\"" ELSE ">"
    IN  IF start = 0
        THEN Failed(vglsl_set_error(c, "Invalid include directive", line_num, filename))
        ELSE
        LET end == strchr(directive, end_char, start)
        IN  IF end = 0
            THEN Failed(vglsl_set_error(c, "Unterminated include filename",
                                        line_num, filename))
            ELSE IF end - start >= INCLUDE_FILENAME_SIZE
            THEN Failed(vglsl_set_error(c, "Include filename too long",
                                        line_num, filename))
            ELSE
            LET include_filename == SubSeq(directive, start, end - 1)
                with_base == IF c.config.base_path # NULL
                             THEN snprintf(FULL_PATH_SIZE,
                                           c.config.base_path[1] \o "/" \o include_filename)
                             ELSE include_filename
                resolved_virtual == vglsl_resolve_virtual_path(include_filename)
                full_path == IF is_angle_include /\ resolved_virtual # NULL
                             THEN resolved_virtual[1]
                             ELSE with_base
                include_content == vglsl_read_file(full_path)
            IN  IF include_content = NULL
                THEN Failed(vglsl_set_error(c,
                         snprintf(512, "Failed to read include file: " \o full_path),
                         line_num, filename))
                ELSE
                LET entered == [c EXCEPT !.include_depth = @ + 1]
                    marked == IF c.config.preserve_lines
                              THEN vglsl_append_output(entered,
                                       snprintf(256, "#line 1 \"" \o full_path \o "\"\n")).ctx
                              ELSE entered
                IN  [ctx |-> marked, ok |-> TRUE,
                     call |-> Ptr([full_path |-> full_path,
                                   include_content |-> include_content[1]])]

----------------------------------------------------------------------------
(* Directive processor and the per-line pipeline                           *)

RECURSIVE NameEnd(_, _)
NameEnd(s, i) ==
    \* while (*name_end && *name_end != ' ' && *name_end != '\t' && *name_end != '(')
    IF i > Len(s) \/ IsBlank(CharAt(s, i)) \/ CharAt(s, i) = "(" THEN i
    ELSE NameEnd(s, i + 1)

PassThrough(c, line) ==
    \* unknown directive: the line and a newline go to the output
    LET a == vglsl_append_output(c, line)
    IN  IF ~a.ok THEN Returned(a) ELSE Returned(vglsl_append_output(a.ctx, NL))

push_unchecked(c, active, line_num, filename) ==
    \* PushConditional without the test of the depth limit
    [ctx |-> [c EXCEPT !.if_depth = @ + 1,
                       !.if_stack = (c.if_depth + 1 :> active) @@ @,
                       !.if_taken = (c.if_depth + 1 :> active) @@ @],
     ok |-> TRUE, call |-> NULL]

PushConditional(c, active, line_num, filename) ==
    IF c.if_depth >= IF_STACK_SIZE - 1
    THEN Failed(vglsl_set_error(c, "Too many nested conditionals", line_num, filename))
    ELSE [ctx |-> [c EXCEPT !.if_depth = @ + 1,
                            !.if_stack[c.if_depth + 1] = active,
                            !.if_taken[c.if_depth + 1] = active],
          ok |-> TRUE, call |-> NULL]

toggle_conditional(c, line_num, filename) ==
    \* ElseConditional negating branch_active instead of reading branch_taken
    IF c.if_depth <= 0
    THEN Failed(vglsl_set_error(c, "#else without #ifdef/#ifndef", line_num, filename))
    ELSE [ctx |-> [c EXCEPT !.if_stack[c.if_depth] = ~c.if_stack[c.if_depth]],
          ok |-> TRUE, call |-> NULL]

ElseConditional(c, line_num, filename) ==
    \* the #else branch of vglsl_process_directive
    IF c.if_depth <= 0
    THEN Failed(vglsl_set_error(c, "#else without #ifdef/#ifndef", line_num, filename))
    ELSE [ctx |-> [c EXCEPT !.if_stack[c.if_depth] = ~c.if_taken[c.if_depth]],
          ok |-> TRUE, call |-> NULL]

vglsl_process_directive(c, line, line_num, filename) ==
    LET directive == vglsl_trim_whitespace(From(line, 2))
    IN  IF vglsl_starts_with(directive, "include")
        THEN vglsl_process_include(c, directive, line_num, filename)
        ELSE IF vglsl_starts_with(directive, "define")
        THEN LET name_start == SkipBlanks(directive, 7)
                 name_end == NameEnd(directive, name_start)
                 name == SubSeq(directive, name_start, name_end - 1)
             IN  IF name_end = name_start
                 THEN Failed(vglsl_set_error(c, "Invalid define directive",
                                             line_num, filename))
                 ELSE IF name_end - name_start >= IDENTIFIER_SIZE
                 THEN Failed(vglsl_set_error(c, "Define name too long",
                                             line_num, filename))
                 ELSE IF CharAt(directive, name_end) = "("
                 THEN LET close == strchr(directive, ")", name_end)
                      IN  IF close # 0
                          THEN Returned(vglsl_add_define(c, name,
                                   From(directive, SkipBlanks(directive, close + 1)),
                                   <<>>, 0))
                          ELSE PassThrough(c, line)
                 ELSE Returned(vglsl_add_define(c, name,
                          From(directive, SkipBlanks(directive, name_end)), <<>>, 0))
        ELSE IF vglsl_starts_with(directive, "undef")
        THEN LET name == vglsl_trim_whitespace(From(directive, SkipBlanks(directive, 6)))
             IN  [ctx |-> vglsl_remove_define(c, name), ok |-> TRUE, call |-> NULL]
        ELSE IF vglsl_starts_with(directive, "ifdef")
        THEN LET name == vglsl_trim_whitespace(From(directive, SkipBlanks(directive, 6)))
             IN  PushConditional(c, vglsl_find_define(c, name) # 0, line_num, filename)
        ELSE IF vglsl_starts_with(directive, "ifndef")
        THEN LET name == vglsl_trim_whitespace(From(directive, SkipBlanks(directive, 7)))
             IN  PushConditional(c, vglsl_find_define(c, name) = 0, line_num, filename)
        ELSE IF directive = "else"
        THEN ElseConditional(c, line_num, filename)
        ELSE IF directive = "endif"
        THEN IF c.if_depth <= 0
             THEN Failed(vglsl_set_error(c, "#endif without #ifdef/#ifndef",
                                         line_num, filename))
             ELSE [ctx |-> [c EXCEPT !.if_depth = @ - 1], ok |-> TRUE, call |-> NULL]
        ELSE PassThrough(c, line)

always_output(c) == TRUE
    \* vglsl_should_output ignoring the conditional stack

top_frame_output(c) ==
    \* vglsl_should_output looking at the innermost frame only
    c.if_depth = 0 \/ c.if_stack[c.if_depth]

vglsl_should_output(c) ==
    \A i \in 1..c.if_depth : c.if_stack[i]

StripAndTrim(c, line) ==
    \* processed_line of vglsl_process_line
    vglsl_trim_whitespace(IF c.config.remove_comments
                          THEN vglsl_remove_comments(line) ELSE line)

vglsl_process_line(c, line, line_num, filename) ==
    IF c.has_error THEN Failed(c)
    ELSE
    LET processed_line == StripAndTrim(c, line)
    IN  IF CharAt(processed_line, 1) = "#"
        THEN vglsl_process_directive(c, processed_line, line_num, filename)
        ELSE IF ~vglsl_should_output(c)
        THEN [ctx |-> c, ok |-> TRUE, call |-> NULL]
        ELSE
        LET expanded == vglsl_expand_macros(c, processed_line, VGLSL_MAX_LINE_LENGTH)
        IN  IF ~expanded.ok
            THEN Failed(vglsl_set_error(c, "Macro expansion failed", line_num, filename))
            ELSE LET a == vglsl_append_output(c, expanded.output)
                 IN  IF ~a.ok THEN Returned(a)
                     ELSE Returned(vglsl_append_output(a.ctx, NL))

----------------------------------------------------------------------------
(* vglsl_parse_internal and the line loops                                 *)

ZeroResult ==
    \* VglslResult result = {0};
    [success |-> FALSE, output |-> NULL, error_message |-> NULL,
     error_line |-> 0, error_file |-> NULL]

InitContext(config) ==
    \* VglslContext ctx = {0}; config, output_capacity and output[0] set
    [defines |-> <<>>,
     output |-> "",
     output_capacity |-> OUTPUT_INITIAL_CAPACITY,
     config |-> config,
     include_depth |-> 0,
     has_error |-> FALSE,
     error_message |-> NULL,
     error_line |-> 0,
     error_file |-> NULL,
     if_stack |-> [i \in 0..(IF_STACK_SIZE - 1) |-> FALSE],
     if_taken |-> [i \in 0..(IF_STACK_SIZE - 1) |-> FALSE],
     if_depth |-> 0]

Frame(text, filename, dir_line, dir_file) ==
    \* the locals of a line loop: text and line_start, line_num, success; filename
    \* is the name the lines are reported under; dir_line and dir_file are
    \* vglsl_process_include's line_num and filename parameters
    [text |-> text, line_start |-> 1, line_num |-> 1, success |-> TRUE,
     filename |-> filename, dir_line |-> dir_line, dir_file |-> dir_file]

LineEnd(fr) == strchr(fr.text, NL, fr.line_start)
    \* strchr(line_start, '\n'), 0 for NULL

LineLength(fr) ==
    IF LineEnd(fr) # 0 THEN LineEnd(fr) - fr.line_start
    ELSE Len(fr.text) - fr.line_start + 1

CurrentLine(fr) == SubSeq(fr.text, fr.line_start, fr.line_start + LineLength(fr) - 1)

Advance(fr) ==
    \* the end of a loop body: the next line, or break after the last one
    IF LineEnd(fr) # 0
    THEN [fr EXCEPT !.line_start = LineEnd(fr) + 1, !.line_num = @ + 1]
    ELSE [fr EXCEPT !.line_start = Len(fr.text) + 1]

Top == stack[Len(stack)]

Enter(call, fr) ==
    Frame(call.include_content, call.full_path, fr.line_num, fr.filename)

\* One iteration of the loop of vglsl_parse_internal.  A line that opens an
\* include leaves the iteration unfinished until the include returns.
ParseLine ==
    /\ pc = "parse"
    /\ Len(stack) = 1
    /\ Top.line_start <= Len(Top.text) /\ Top.success /\ ~ctx.has_error
    /\ IF LineLength(Top) < VGLSL_MAX_LINE_LENGTH
       THEN LET r == vglsl_process_line(ctx, CurrentLine(Top), Top.line_num, Top.filename)
            IN  /\ ctx' = r.ctx
                /\ stack' = IF r.call # NULL
                            THEN <<Top, Enter(r.call[1], Top)>>
                            ELSE <<Advance([Top EXCEPT !.success = r.ok])>>
       ELSE /\ ctx' = vglsl_set_error(ctx, "Line too long", Top.line_num, Top.filename)
            /\ stack' = <<Advance([Top EXCEPT !.success = FALSE])>>
    /\ UNCHANGED <<pc, result, source, pass, g_virtual_paths, freed>>

\* One iteration of the loop of vglsl_process_include.
IncludeLine ==
    /\ pc = "parse"
    /\ Len(stack) > 1
    /\ Top.line_start <= Len(Top.text) /\ Top.success
    /\ IF LineLength(Top) < VGLSL_MAX_LINE_LENGTH
       THEN LET r == vglsl_process_line(ctx, CurrentLine(Top), Top.line_num, Top.filename)
            IN  /\ ctx' = r.ctx
                /\ stack' = IF r.call # NULL
                            THEN Append(stack, Enter(r.call[1], Top))
                            ELSE [stack EXCEPT ![Len(stack)] =
                                      Advance([Top EXCEPT !.success = r.ok])]
       ELSE /\ ctx' = ctx
            /\ stack' = [stack EXCEPT ![Len(stack)] = Advance(Top)]
    /\ UNCHANGED <<pc, result, source, pass, g_virtual_paths, freed>>

include_return_checked ==
    \* IncludeReturn reporting a conditional that is open when the file ends
    /\ pc = "parse"
    /\ Len(stack) > 1
    /\ ~(Top.line_start <= Len(Top.text) /\ Top.success)
    /\ LET unclosed == Top.success /\ ctx.if_depth > 0
           left == [ctx EXCEPT !.include_depth = @ - 1]
           caller == stack[Len(stack) - 1]
       IN  /\ ctx' = IF unclosed
                     THEN vglsl_set_error(left, "Unclosed conditional directive",
                                          Top.line_num, Top.filename)
                     ELSE left
           /\ stack' = SubSeq(stack, 1, Len(stack) - 2)
                       \o <<Advance([caller EXCEPT !.success = Top.success /\ ~unclosed])>>
    /\ UNCHANGED <<pc, result, source, pass, g_virtual_paths, freed>>

include_return_on_success ==
    \* IncludeReturn taking the depth back only when the include succeeded
    /\ pc = "parse"
    /\ Len(stack) > 1
    /\ ~(Top.line_start <= Len(Top.text) /\ Top.success)
    /\ LET left == IF Top.success THEN [ctx EXCEPT !.include_depth = @ - 1] ELSE ctx
           caller == stack[Len(stack) - 1]
       IN  /\ ctx' = IF ctx.config.preserve_lines /\ Top.success
                     THEN vglsl_append_output(left,
                              snprintf(256, "#line " \o IntToStr(Top.dir_line + 1)
                                            \o " \"" \o Top.dir_file \o "\"\n")).ctx
                     ELSE left
           /\ stack' = SubSeq(stack, 1, Len(stack) - 2)
                       \o <<Advance([caller EXCEPT !.success = Top.success])>>
    /\ UNCHANGED <<pc, result, source, pass, g_virtual_paths, freed>>

\* The end of vglsl_process_include: its loop is over, it returns success to the
\* loop iteration that processed the #include line, which then finishes.
IncludeReturn ==
    /\ pc = "parse"
    /\ Len(stack) > 1
    /\ ~(Top.line_start <= Len(Top.text) /\ Top.success)
    /\ LET left == [ctx EXCEPT !.include_depth = @ - 1]
           caller == stack[Len(stack) - 1]
       IN  /\ ctx' = IF ctx.config.preserve_lines /\ Top.success
                     THEN vglsl_append_output(left,
                              snprintf(256, "#line " \o IntToStr(Top.dir_line + 1)
                                            \o " \"" \o Top.dir_file \o "\"\n")).ctx
                     ELSE left
           /\ stack' = SubSeq(stack, 1, Len(stack) - 2)
                       \o <<Advance([caller EXCEPT !.success = Top.success])>>
    /\ UNCHANGED <<pc, result, source, pass, g_virtual_paths, freed>>

build_result_unchecked ==
    \* BuildResult without the check for unclosed conditionals
    /\ pc = "parse"
    /\ Len(stack) = 1
    /\ ~(Top.line_start <= Len(Top.text) /\ Top.success /\ ~ctx.has_error)
    /\ ctx' = ctx
    /\ stack' = stack
    /\ result' = IF Top.success /\ ~ctx.has_error
                 THEN [success |-> TRUE, output |-> Ptr(ctx.output),
                       error_message |-> NULL, error_line |-> 0,
                       error_file |-> NULL]
                 ELSE [success |-> FALSE, output |-> NULL,
                       error_message |-> ctx.error_message,
                       error_line |-> ctx.error_line,
                       error_file |-> ctx.error_file]
    /\ pc' = "done"
    /\ UNCHANGED <<source, pass, g_virtual_paths, freed>>

build_result_partial ==
    \* BuildResult handing the accumulated output over on failure as well
    /\ pc = "parse"
    /\ Len(stack) = 1
    /\ ~(Top.line_start <= Len(Top.text) /\ Top.success /\ ~ctx.has_error)
    /\ LET unclosed == Top.success /\ ctx.if_depth > 0
           c == IF unclosed
                THEN vglsl_set_error(ctx, "Unclosed conditional directive",
                                     Top.line_num, Top.filename)
                ELSE ctx
       IN  /\ ctx' = c
           /\ stack' = <<[Top EXCEPT !.success = Top.success /\ ~unclosed]>>
           /\ result' = [success |-> Top.success /\ ~unclosed /\ ~c.has_error,
                         output |-> Ptr(c.output),
                         error_message |-> c.error_message,
                         error_line |-> c.error_line,
                         error_file |-> c.error_file]
    /\ pc' = "done"
    /\ UNCHANGED <<source, pass, g_virtual_paths, freed>>

\* After the loop of vglsl_parse_internal: the unclosed-conditional check and
\* the Result.  ctx keeps the context as it was when the Result was built.
BuildResult ==
    /\ pc = "parse"
    /\ Len(stack) = 1
    /\ ~(Top.line_start <= Len(Top.text) /\ Top.success /\ ~ctx.has_error)
    /\ LET unclosed == Top.success /\ ctx.if_depth > 0
           c == IF unclosed
                THEN vglsl_set_error(ctx, "Unclosed conditional directive",
                                     Top.line_num, Top.filename)
                ELSE ctx
           success == Top.success /\ ~unclosed
       IN  /\ ctx' = c
           /\ stack' = <<[Top EXCEPT !.success = success]>>
           /\ result' = IF success /\ ~c.has_error
                        THEN [success |-> TRUE, output |-> Ptr(c.output),
                              error_message |-> NULL, error_line |-> 0,
                              error_file |-> NULL]
                        ELSE [success |-> FALSE, output |-> NULL,
                              error_message |-> c.error_message,
                              error_line |-> c.error_line,
                              error_file |-> c.error_file]
    /\ pc' = "done"
    /\ UNCHANGED <<source, pass, g_virtual_paths, freed>>

\* The caller parses the output of a successful first parse again, with the
\* same configuration (vglsl_parse_memory_ex on result.output).
SecondPass ==
    /\ pc = "done"
    /\ pass = 1
    /\ result.success
    /\ ctx' = InitContext(ctx.config)
    /\ stack' = <<Frame(result.output[1], Top.filename, 0, "")>>
    /\ pc' = "parse"
    /\ pass' = 2
    /\ UNCHANGED <<result, source, g_virtual_paths, freed>>

----------------------------------------------------------------------------
(* vglsl_parse_file_ex and vglsl_free_result                               *)

\* vglsl_parse_file_ex: pc is "open" when it is called with the file name in
\* the first frame; it reads the file and parses its text, or returns at once.
OpenFile ==
    /\ pc = "open"
    /\ LET content == vglsl_read_file(Top.filename)
       IN  IF content = NULL
           THEN /\ result' = [ZeroResult EXCEPT !.error_message =
                                  Ptr(snprintf(512, "Failed to read file: " \o Top.filename))]
                /\ pc' = "done"
                /\ UNCHANGED <<stack, source>>
           ELSE /\ stack' = <<Frame(content[1], Top.filename, 0, "")>>
                /\ source' = content[1]
                /\ pc' = "parse"
                /\ UNCHANGED result
    /\ UNCHANGED <<ctx, pass, g_virtual_paths, freed>>

free_result_keep_pointers(r) ==
    \* vglsl_free_result that frees the strings and leaves the pointers set
    [result |-> [r EXCEPT !.success = FALSE, !.error_line = 0],
     released |-> {f \in {"output", "error_message", "error_file"} : r[f] # NULL}]

vglsl_free_result(r) ==
    \* the Result after the call, and the fields whose buffer was released
    [result |-> [success |-> FALSE, output |-> NULL, error_message |-> NULL,
                 error_line |-> 0, error_file |-> NULL],
     released |-> {f \in {"output", "error_message", "error_file"} : r[f] # NULL}]

MaxFrees == 2
    \* the calls of vglsl_free_result on one Result

FreeResult ==
    /\ pc = "done"
    /\ Len(freed) < MaxFrees
    /\ result' = vglsl_free_result(result).result
    /\ freed' = Append(freed, vglsl_free_result(result).released)
    /\ UNCHANGED <<ctx, stack, pc, source, pass, g_virtual_paths>>

----------------------------------------------------------------------------
(* The virtual include path registry; pc is "idle" between parses          *)

VGLSL_MAX_VIRTUAL_PATHS == 3
    \* src/vglsl.h:103, 32

RECURSIVE find_virtual_path_from(_, _, _)
find_virtual_path_from(paths, virtual_name, i) ==
    \* the first entry called virtual_name at or after i, 0 when there is none
    IF i > Len(paths) THEN 0
    ELSE IF paths[i].virtual_name = virtual_name THEN i
    ELSE find_virtual_path_from(paths, virtual_name, i + 1)

vglsl_add_virtual_include_path(paths, virtual_name, real_path) ==
    IF virtual_name = NULL \/ real_path = NULL \/ Len(paths) >= VGLSL_MAX_VIRTUAL_PATHS
    THEN paths
    ELSE LET i == find_virtual_path_from(paths, virtual_name[1], 1)
         IN  IF i # 0
             THEN [paths EXCEPT ![i].real_path = real_path[1]]
             ELSE Append(paths, [virtual_name |-> virtual_name[1],
                                 real_path |-> real_path[1]])

remove_virtual_path_swap(paths, virtual_name) ==
    \* removal that fills the hole with the last entry instead of shifting
    IF virtual_name = NULL THEN paths
    ELSE LET i == find_virtual_path_from(paths, virtual_name[1], 1)
         IN  IF i = 0 THEN paths
             ELSE IF i = Len(paths) THEN SubSeq(paths, 1, i - 1)
             ELSE SubSeq(paths, 1, i - 1) \o <<paths[Len(paths)]>>
                  \o SubSeq(paths, i + 1, Len(paths) - 1)

vglsl_remove_virtual_include_path(paths, virtual_name) ==
    IF virtual_name = NULL THEN paths
    ELSE LET i == find_virtual_path_from(paths, virtual_name[1], 1)
         IN  IF i = 0 THEN paths
             ELSE SubSeq(paths, 1, i - 1) \o SubSeq(paths, i + 1, Len(paths))

vglsl_clear_virtual_include_paths(paths) == <<>>

Aliases == {"V", "W", "U", "T"}
RealPaths == {"r", "s"}

AddVirtualPath ==
    /\ pc = "idle"
    /\ \E virtual_name \in {NULL} \cup {Ptr(a) : a \in Aliases},
          real_path \in {NULL} \cup {Ptr(r) : r \in RealPaths} :
           g_virtual_paths' =
               vglsl_add_virtual_include_path(g_virtual_paths, virtual_name, real_path)
    /\ UNCHANGED <<ctx, stack, pc, result, source, pass, freed>>

RemoveVirtualPath ==
    /\ pc = "idle"
    /\ \E virtual_name \in {NULL} \cup {Ptr(a) : a \in Aliases} :
           g_virtual_paths' =
               vglsl_remove_virtual_include_path(g_virtual_paths, virtual_name)
    /\ UNCHANGED <<ctx, stack, pc, result, source, pass, freed>>

ClearVirtualPaths ==
    /\ pc = "idle"
    /\ g_virtual_paths' = vglsl_clear_virtual_include_paths(g_virtual_paths)
    /\ UNCHANGED <<ctx, stack, pc, result, source, pass, freed>>

----------------------------------------------------------------------------
(* Inputs                                                                  *)

MaxLines == 4
    \* the longest enumerated source, in lines
MaxOutputSize == 64
    \* config.max_output_size (VGLSL_MAX_OUTPUT_SIZE is 1 MB)
SmallOutputSize == 24
    \* a max_output_size that short sources exceed
MaxIncludeDepth == 2
    \* config.max_include_depth (VGLSL_MAX_INCLUDE_DEPTH is 32)

Config(remove_comments, preserve_lines, max_include_depth, max_output_size) ==
    \* vglsl_default_config with the fields a caller may change
    [base_path |-> Ptr("b"),
     preserve_lines |-> preserve_lines,
     remove_comments |-> remove_comments,
     max_include_depth |-> max_include_depth,
     max_output_size |-> max_output_size]

RECURSIVE JoinLines(_, _)
JoinLines(lines, final_newline) ==
    \* the text whose lines are `lines`, the last one with or without its newline
    IF lines = <<>> THEN ""
    ELSE IF Len(lines) = 1 THEN lines[1] \o (IF final_newline THEN NL ELSE "")
    ELSE lines[1] \o NL \o JoinLines(Tail(lines), final_newline)

Sources(pool, n) ==
    {JoinLines(ls, TRUE) : ls \in UNION {[1..k -> pool] : k \in 0..n}}

MacroPool ==
    {"#define X abcd", "#define Y X", "#undef X", "#define F(a) -a",
     "r = X*Y1;", "X X X X;", "F(X)", "#include \"f\""}

InitParse(sources, configs, registries) ==
    /\ source \in sources
    /\ \E config \in configs : ctx = InitContext(config)
    /\ stack = <<Frame(source, "t", 0, "")>>
    /\ pc = "parse"
    /\ result = ZeroResult
    /\ pass = 1
    /\ g_virtual_paths \in registries
    /\ freed = <<>>

Init ==
    InitParse(Sources(MacroPool, MaxLines),
              {Config(TRUE, FALSE, MaxIncludeDepth, m) : m \in {SmallOutputSize, MaxOutputSize}},
              {<<>>})

Next == ParseLine \/ IncludeLine \/ IncludeReturn \/ BuildResult

Spec == Init /\ [][Next]_vars

\* Conditional compilation
CondPool ==
    {"#define D", "#ifdef D", "#ifndef D", "#else", "#endif", "a", "b",
     "#include \"f\""}

CondLines == 2
    \* the longest group of lines inside an enumerated conditional block

CondBlocks ==
    \* whole conditional blocks, after the sources of test_ifdef_conditionals
    \* and test_ifdef_else: lines before, the test, the lines of the first
    \* group, #else, the lines of the second group, #endif, lines after
    LET groups == UNION {[1..k -> {"a", "b"}] : k \in 0..CondLines}
        before == {<<>>, <<"#define D">>, <<"#define D", "#undef D">>,
                   <<"a", "#define E">>}
        block == {pre \o <<test \o " " \o name>> \o first \o <<"#else">>
                      \o second \o <<"#endif">> \o post :
                  pre \in before, test \in {"#ifdef", "#ifndef"}, name \in {"D", "E"},
                  first \in groups, second \in groups, post \in {<<>>, <<"z">>}}
    IN  {JoinLines(ls, TRUE) : ls \in block}
        \cup {JoinLines(<<"#ifndef Q">> \o ls \o <<"#endif">>, TRUE) : ls \in block}

InitCond ==
    InitParse(Sources(CondPool, MaxLines) \cup CondBlocks,
              {Config(TRUE, FALSE, MaxIncludeDepth, MaxOutputSize)},
              {<<>>})

SpecCond == InitCond /\ [][Next]_vars

\* Comments and plain text, parsed once or twice
PlainLines == 3
    \* the longest enumerated source of SpecPlain, in lines

PlainPool ==
    {"  x = 1; ", "a // c", "/* m", "c */ y", "p /* q */ r", "\"//\" s", "",
     "#define P 3", "v // P", "#include \"f\""}

InitPlain ==
    InitParse({JoinLines(ls, nl) : ls \in UNION {[1..k -> PlainPool] : k \in 0..PlainLines},
                                   nl \in BOOLEAN},
              {Config(rc, FALSE, MaxIncludeDepth, MaxOutputSize) : rc \in BOOLEAN},
              {<<>>})

NextTwoPass == Next \/ SecondPass

SpecPlain == InitPlain /\ [][NextTwoPass]_vars

\* Includes
IncludePool ==
    {"a", "b", "#include \"f\"", "#include \"g\"", "#include <V/f>", "#include \"n\""}

InitInclude ==
    InitParse(Sources(IncludePool, PlainLines),
              {Config(TRUE, pl, d, MaxOutputSize) : pl \in BOOLEAN, d \in 1..MaxIncludeDepth},
              {<<>>, <<[virtual_name |-> "V", real_path |-> "r"]>>})

SpecInclude == InitInclude /\ [][Next]_vars

\* Include directives of every form, well formed or not
DirectivePool ==
    {"#include \"d\"", "#include <V/f>", "#include \"V/f\"", "#include <f>",
     "#include <W/f>", "#include f", "#include \"f", "#include <f", "M",
     "#include \"e\""}

InitDirectives ==
    InitParse(Sources(DirectivePool, PlainLines),
              {Config(TRUE, pl, MaxIncludeDepth, MaxOutputSize) : pl \in BOOLEAN},
              {<<>>, <<[virtual_name |-> "V", real_path |-> "r"]>>})

SpecDirectives == InitDirectives /\ [][Next]_vars

\* The registry between parses
InitRegistry ==
    /\ ctx = InitContext(Config(TRUE, FALSE, MaxIncludeDepth, MaxOutputSize))
    /\ stack = <<Frame("", "t", 0, "")>>
    /\ pc = "idle"
    /\ result = ZeroResult
    /\ source = ""
    /\ pass = 1
    /\ g_virtual_paths = <<>>
    /\ freed = <<>>

NextRegistry == AddVirtualPath \/ RemoveVirtualPath \/ ClearVirtualPaths

SpecRegistry == InitRegistry /\ [][NextRegistry]_vars

\* Failing parses of every kind, of memory and of files, and the release of
\* their Results
ErrorLines == 3
    \* the longest enumerated source of SpecErrors, in lines

ErrorPool ==
    \* "#define INVALID_MACRO(" is the source of test_error_handling
    {"#define G(", "#else", "#endif", "#ifdef A",
     "#include \"n\"", "#include f", "#include \"g\"", "#include \"h\"",
     "#include \"l\"",
     "#define D 4", "#define X abcd", "X X X X;",
     "abcdefghijklmn", "aaaaaaaaaaaaaaaaaaaaaa"}

RootFiles == {"b/f", "b/g", "b/d", "b/e", "b/h", "n"}
    \* the filename argument of vglsl_parse_file_ex

ErrorConfigs ==
    {Config(TRUE, pl, d, m) : pl \in BOOLEAN, d \in {1, MaxIncludeDepth},
                              m \in {SmallOutputSize, MaxOutputSize}}

InitErrors ==
    \/ InitParse(Sources(ErrorPool, ErrorLines), ErrorConfigs, {<<>>})
    \/ /\ \E config \in ErrorConfigs : ctx = InitContext(config)
       /\ \E filename \in RootFiles : stack = <<Frame("", filename, 0, "")>>
       /\ pc = "open"
       /\ result = ZeroResult
       /\ source = ""
       /\ pass = 1
       /\ g_virtual_paths = <<>>
       /\ freed = <<>>

NextErrors == Next \/ OpenFile \/ FreeResult

SpecErrors == InitErrors /\ [][NextErrors]_vars

\* Nested includes: files that include themselves or each other, a file
\* that opens a conditional, a file that closes one
NestLines == 3
    \* the longest enumerated source of SpecNesting, in lines

NestPool ==
    {"#include \"s\"", "#include \"p\"", "#include \"m\"", "#include \"g\"",
     "#include \"o\"", "#include \"c\"", "#include \"w\"", "#ifdef U", "#endif",
     "x"}

InitNesting ==
    InitParse(Sources(NestPool, NestLines),
              {Config(TRUE, pl, d, MaxOutputSize) :
                   pl \in BOOLEAN, d \in {1, MaxIncludeDepth}},
              {<<>>})

SpecNesting == InitNesting /\ [][Next]_vars

\* The loops of vglsl_parse_internal and vglsl_process_include are sequential
\* C: a call that has not returned keeps executing.  Between the entry of
\* the parse and the construction of its Result one of the four steps can
\* always be taken (their guards are exhaustive when pc = "parse") and every
\* step changes stack or pc, so ENABLED <<Next>>_vars is Running and weak
\* fairness of Next is the second conjunct below; the Result is built as soon
\* as the outer loop is over.
Running == pc = "parse"

FairNesting ==
    /\ SpecNesting
    /\ []<>(~Running) \/ []<><<Next>>_vars
    /\ WF_vars(BuildResult)

\* Macros whose values name macros
RescanPool ==
    {"#define A B", "#define B 1", "#define A A", "#define B A", "#undef B",
     "#include \"a\"", "A", "B", "A+B;"}

InitRescan ==
    InitParse(Sources(RescanPool, MaxLines),
              {Config(TRUE, FALSE, MaxIncludeDepth, MaxOutputSize)},
              {<<>>})

SpecRescan == InitRescan /\ [][Next]_vars

\* Conditional directives that carry a trailing comment, with and without
\* comment removal
TrailingLines == 4
    \* the longest enumerated source of SpecTrailing, in lines

TrailingPool ==
    {"#define D", "#ifdef D", "#else", "#else // n", "#endif", "#endif // D",
     "a", "#include \"f\""}

InitTrailing ==
    InitParse(Sources(TrailingPool, TrailingLines),
              {Config(rc, FALSE, MaxIncludeDepth, MaxOutputSize) : rc \in BOOLEAN},
              {<<>>})

SpecTrailing == InitTrailing /\ [][Next]_vars

\* Output accumulation under caps below, at and above the initial capacity
TinyOutputSize == 8
    \* a max_output_size below the initial capacity of the output buffer

OutputPool == {"a", "abcdefg", "abcdefghijklmn", "#include \"f\""}

InitOutput ==
    InitParse(Sources(OutputPool, MaxLines),
              {Config(TRUE, pl, MaxIncludeDepth, m) :
                   pl \in BOOLEAN, m \in {TinyOutputSize, SmallOutputSize, MaxOutputSize}},
              {<<>>})

SpecOutput == InitOutput /\ [][Next]_vars

----------------------------------------------------------------------------
(* Reference notions the properties are stated with.  They are written     *)
(* from the directive grammar and the expansion rule, not from the loops   *)
(* above.                                                                  *)

Min(S) == CHOOSE x \in S : \A y \in S : x <= y
Max(S) == CHOOSE x \in S : \A y \in S : x >= y

StartsWith(s, p) == Len(s) >= Len(p) /\ SubSeq(s, 1, Len(p)) = p

\* a loop iteration is about to process CurrentLine(Top)
AtLine ==
    /\ pc = "parse"
    /\ Top.line_start <= Len(Top.text)
    /\ Top.success
    /\ Len(stack) = 1 => ~ctx.has_error
    /\ LineLength(Top) < VGLSL_MAX_LINE_LENGTH

\* every open conditional frame is active
Live(c) == \A i \in 1..c.if_depth : c.if_stack[i]

\* the macro table holds a macro called name
Defined(c, name) == \E i \in 1..Len(c.defines) : c.defines[i].name = name

ValueOf(c, name) ==
    c.defines[CHOOSE i \in 1..Len(c.defines) : c.defines[i].name = name].value

\* s without its leading blanks and its trailing white space
RefTrim(s) ==
    LET lead == {i \in 1..Len(s) : ~IsBlank(SubSeq(s, i, i))}
        lo == IF lead = {} THEN Len(s) + 1 ELSE Min(lead)
        kept == {i \in lo..Len(s) : SubSeq(s, i, i) \notin {" ", "\t", "\n", "\r"}}
    IN  IF kept = {} THEN "" ELSE SubSeq(s, lo, Max(kept))

\* the length of the longest run of identifier characters that starts s
RefIdLen(s) ==
    LET stop == {i \in 1..Len(s) : ~IsIdChar(SubSeq(s, i, i))}
    IN  IF stop = {} THEN Len(s) ELSE Min(stop) - 1

\* text with every whole identifier that names a macro replaced by its value
RECURSIVE RefExpand(_, _)
RefExpand(c, text) ==
    IF text = "" THEN ""
    ELSE IF IsIdStart(CharAt(text, 1))
    THEN LET id == SubSeq(text, 1, RefIdLen(text))
         IN  (IF Defined(c, id) THEN ValueOf(c, id) ELSE id)
             \o RefExpand(c, From(text, RefIdLen(text) + 1))
    ELSE IF IsIdChar(CharAt(text, 1))
    THEN \* a number: its digits and letters are no identifier
         SubSeq(text, 1, RefIdLen(text)) \o RefExpand(c, From(text, RefIdLen(text) + 1))
    ELSE CharAt(text, 1) \o RefExpand(c, From(text, 2))

\* the identifiers of text (maximal runs that do not start with a digit)
RECURSIVE RefIdentifiers(_)
RefIdentifiers(text) ==
    IF text = "" THEN {}
    ELSE IF IsIdChar(CharAt(text, 1))
    THEN (IF IsIdStart(CharAt(text, 1)) THEN {SubSeq(text, 1, RefIdLen(text))} ELSE {})
         \cup RefIdentifiers(From(text, RefIdLen(text) + 1))
    ELSE RefIdentifiers(From(text, 2))

\* section 4.4: expansion fails on an identifier at the length limit and when
\* the expansion would overflow the line-sized working buffer
WithinLimits(c, text) ==
    /\ Len(RefExpand(c, text)) <= VGLSL_MAX_LINE_LENGTH - 1
    /\ \A id \in RefIdentifiers(text) : Len(id) < IDENTIFIER_SIZE

\* "#define NAME VALUE" with no parenthesis after NAME: the parts of the line
DefineRest(line) == From(RefTrim(From(line, 2)), 7)
IsDefine(line) ==
    /\ CharAt(line, 1) = "#"
    /\ StartsWith(RefTrim(From(line, 2)), "define")
    /\ IsBlank(CharAt(DefineRest(line), 1))
    /\ RefTrim(DefineRest(line)) # ""
DefineName(line) ==
    LET r == RefTrim(DefineRest(line))
        stop == {i \in 1..Len(r) : IsBlank(SubSeq(r, i, i)) \/ SubSeq(r, i, i) = "("}
    IN  IF stop = {} THEN r ELSE SubSeq(r, 1, Min(stop) - 1)
DefineTail(line) ==
    \* what follows NAME
    From(RefTrim(DefineRest(line)), Len(DefineName(line)) + 1)
IsSimpleDefine(line) == IsDefine(line) /\ CharAt(DefineTail(line), 1) # "("
IsFunctionDefine(line) == IsDefine(line) /\ CharAt(DefineTail(line), 1) = "("

----------------------------------------------------------------------------
(* C1: once "#define NAME VALUE" has been processed in a live position the *)
(* table maps NAME to VALUE, and every live non-directive line is emitted  *)
(* with each whole identifier that names a macro replaced by the macro's   *)
(* value, every other identifier and every other character copied; the     *)
(* lines meant are those within the limits of section 4.4.                 *)

C1_Step ==
    (AtLine /\ ~ctx.has_error /\ Live(ctx)) =>
        LET line == StripAndTrim(ctx, CurrentLine(Top))
        IN  /\ (IsSimpleDefine(line) /\ Len(ctx.defines) < VGLSL_MAX_DEFINES) =>
                   /\ Defined(ctx', DefineName(line))
                   /\ ValueOf(ctx', DefineName(line)) = RefTrim(DefineTail(line))
                   /\ ~ctx'.has_error
            /\ (CharAt(line, 1) # "#" /\ WithinLimits(ctx, line)) =>
                   IF ctx'.has_error
                   THEN ctx'.error_message = Ptr("Output size exceeded maximum limit")
                   ELSE ctx'.output = ctx.output \o RefExpand(ctx, line) \o NL

----------------------------------------------------------------------------
(* Sources read as sequences of lines                                      *)

RECURSIVE RefLines(_)
RefLines(text) ==
    LET nl == {i \in 1..Len(text) : SubSeq(text, i, i) = NL}
    IN  IF text = "" THEN <<>>
        ELSE IF nl = {} THEN <<text>>
        ELSE <<SubSeq(text, 1, Min(nl) - 1)>> \o RefLines(From(text, Min(nl) + 1))

\* what follows the # of a directive line
DirectiveText(line) ==
    IF CharAt(line, 1) = "#" THEN RefTrim(From(line, 2)) ELSE ""

\* the NAME of "#<word> NAME", "" when line is no such directive
NameAfter(line, word) ==
    LET d == DirectiveText(line)
    IN  IF /\ StartsWith(d, word)
           /\ IsBlank(CharAt(d, Len(word) + 1))
        THEN RefTrim(From(d, Len(word) + 1))
        ELSE ""

IsUndef(line) == NameAfter(line, "undef") # ""
IsIfdef(line) == NameAfter(line, "ifdef") # ""
IsIfndef(line) == NameAfter(line, "ifndef") # ""
IsElse(line) == CharAt(line, 1) = "#" /\ DirectiveText(line) = "else"
IsEndif(line) == CharAt(line, 1) = "#" /\ DirectiveText(line) = "endif"

\* the names that the lines define: a name is defined after the lines when
\* its last #define or #undef among them is a #define
RECURSIVE DefinedAfter(_)
DefinedAfter(lines) ==
    IF lines = <<>> THEN {}
    ELSE LET before == DefinedAfter(SubSeq(lines, 1, Len(lines) - 1))
             last == lines[Len(lines)]
         IN  IF IsSimpleDefine(last) THEN before \cup {DefineName(last)}
             ELSE IF IsUndef(last) THEN before \ {NameAfter(last, "undef")}
             ELSE before

\* a non-directive line that is emitted as it stands: nothing to trim, no
\* comment, no identifier from names
IsPlain(line, names) ==
    /\ line # ""
    /\ CharAt(line, 1) # "#"
    /\ RefTrim(line) = line
    /\ \A i \in 1..Len(line) : SubSeq(line, i, i) \notin {"/", "\"", "'"}
    /\ RefIdentifiers(line) \cap names = {}

AllPlain(lines, names) == \A i \in 1..Len(lines) : IsPlain(lines[i], names)

RECURSIVE EmitPlain(_)
EmitPlain(lines) ==
    IF lines = <<>> THEN ""
    ELSE IF CharAt(lines[1], 1) = "#" THEN EmitPlain(Tail(lines))
    ELSE lines[1] \o NL \o EmitPlain(Tail(lines))

----------------------------------------------------------------------------
(* C2: of a block #ifdef NAME / A-lines / #else / B-lines / #endif met     *)
(* while live, the A-lines are emitted iff NAME is in the macro table when *)
(* the #ifdef is processed and the B-lines are emitted otherwise; #ifndef  *)
(* is the mirror image.  Stated of every finished parse whose source is    *)
(* such a block between plain lines, #define and #undef lines, alone or    *)
(* inside a live #ifndef.                                                  *)

DefinedNames(lines) ==
    {DefineName(lines[i]) : i \in {n \in 1..Len(lines) : IsSimpleDefine(lines[n])}}

C2_Block(ls, i, j, k) ==
    LET pre == SubSeq(ls, 1, i - 1)
        first == SubSeq(ls, i + 1, j - 1)
        second == SubSeq(ls, j + 1, k - 1)
        post == SubSeq(ls, k + 1, Len(ls))
        name == IF IsIfdef(ls[i]) THEN NameAfter(ls[i], "ifdef")
                ELSE NameAfter(ls[i], "ifndef")
        chosen == IF IsIfdef(ls[i]) <=> name \in DefinedAfter(pre) THEN first ELSE second
    IN  (/\ IsIfdef(ls[i]) \/ IsIfndef(ls[i])
         /\ IsElse(ls[j])
         /\ IsEndif(ls[k])
         /\ \A n \in 1..Len(pre) :
                \/ IsSimpleDefine(pre[n])
                \/ IsUndef(pre[n])
                \/ IsPlain(pre[n], DefinedNames(pre))
         /\ AllPlain(first \o second \o post, DefinedNames(pre)))
        => /\ result.success
           /\ result.output = Ptr(EmitPlain(pre) \o EmitPlain(chosen) \o EmitPlain(post))

C2_Blocks(ls) ==
    \A i \in 1..Len(ls), j \in 1..Len(ls), k \in 1..Len(ls) :
        (i < j /\ j < k) => C2_Block(ls, i, j, k)

\* C2: exactly one group of an #ifdef/#ifndef ... #else ... #endif block is
\* emitted, chosen by whether NAME is defined when the test is processed
C2_ExactlyOneGroup ==
    pc = "done" =>
        LET ls == RefLines(source)
        IN  /\ C2_Blocks(ls)
            /\ (Len(ls) >= 2 /\ ls[1] = "#ifndef Q" /\ IsEndif(ls[Len(ls)])) =>
                   C2_Blocks(SubSeq(ls, 2, Len(ls) - 1))

C2_Witness ==
    /\ pc = "done"
    /\ source = "#define D\n#ifdef D\na\n#else\nb\n#endif\n"
    /\ result.output = Ptr("a\n")

----------------------------------------------------------------------------
(* C3: a live "#undef NAME" takes NAME, and nothing else, out of the macro *)
(* table, emits nothing and raises no error, and changes nothing when NAME *)
(* is not defined; so in a finished parse of                               *)
(*   #define NAME VALUE / line / #undef NAME / line                        *)
(* the first line is emitted with NAME replaced by VALUE and the second    *)
(* one with NAME left as it stands.                                        *)

Without(defines, name) == SelectSeq(defines, LAMBDA d : d.name # name)

C3_Step ==
    LET line == StripAndTrim(ctx, CurrentLine(Top))
        name == NameAfter(line, "undef")
    IN  (AtLine /\ ~ctx.has_error /\ Live(ctx) /\ IsUndef(line)) =>
            /\ ctx'.defines = Without(ctx.defines, name)
            /\ ~Defined(ctx', name)
            /\ ~ctx'.has_error
            /\ ctx'.output = ctx.output
            /\ ~Defined(ctx, name) => ctx' = ctx

C3_Done ==
    LET ls == RefLines(source)
        only == [defines |-> <<[name |-> DefineName(ls[1]),
                                value |-> RefTrim(DefineTail(ls[1]))]>>]
    IN  (/\ pc = "done"
         /\ result.success
         /\ Len(ls) = 4
         /\ IsSimpleDefine(ls[1])
         /\ NameAfter(ls[3], "undef") = DefineName(ls[1])
         /\ IsPlain(ls[2], {}) /\ IsPlain(ls[4], {})
         /\ WithinLimits(only, ls[2]) /\ WithinLimits(only, ls[4]))
        => result.output = Ptr(RefExpand(only, ls[2]) \o NL \o ls[4] \o NL)

\* C3: #undef NAME removes NAME alone, never fails, and later uses of NAME
\* are emitted unexpanded while earlier ones were expanded
C3_Undef == [][C3_Step]_vars /\ []C3_Done

C3_Witness ==
    /\ pc = "done"
    /\ source = "#define X abcd\nr = X*Y1;\n#undef X\nr = X*Y1;\n"
    /\ result.output = Ptr("r = abcd*Y1;\nr = X*Y1;\n")

----------------------------------------------------------------------------
(* Function-like macros: "#define NAME(p1, ..., pn) BODY" and NAME(args)   *)

FirstIndex(s, c) ==
    \* the first position of the character c in s, 0 when there is none
    LET at == {i \in 1..Len(s) : SubSeq(s, i, i) = c}
    IN  IF at = {} THEN 0 ELSE Min(at)

\* a #define whose NAME is followed at once by a parenthesised list
IsFunctionMacroDefine(line) ==
    IsFunctionDefine(line) /\ FirstIndex(DefineTail(line), ")") # 0

RECURSIVE SplitCommas(_)
SplitCommas(s) ==
    IF FirstIndex(s, ",") = 0 THEN <<RefTrim(s)>>
    ELSE <<RefTrim(SubSeq(s, 1, FirstIndex(s, ",") - 1))>>
         \o SplitCommas(From(s, FirstIndex(s, ",") + 1))

FunctionParams(line) ==
    SplitCommas(SubSeq(DefineTail(line), 2, FirstIndex(DefineTail(line), ")") - 1))

FunctionBody(line) ==
    RefTrim(From(DefineTail(line), FirstIndex(DefineTail(line), ")") + 1))

\* line is NAME(args), args without parentheses
IsUse(line) ==
    /\ IsIdStart(CharAt(line, 1))
    /\ CharAt(line, RefIdLen(line) + 1) = "("
    /\ FirstIndex(line, ")") = Len(line)
UseName(line) == SubSeq(line, 1, RefIdLen(line))
UseArgs(line) == SubSeq(line, RefIdLen(line) + 2, Len(line) - 1)

\* the macro table that binds each parameter to its argument
Bind(params, args) ==
    [defines |-> [i \in 1..Len(params) |-> [name |-> params[i], value |-> args[i]]]]

----------------------------------------------------------------------------
(* C4: after "#define NAME(p1, ..., pn) BODY" a use NAME(a1, ..., an) in a *)
(* live line is emitted as BODY with each parameter replaced by the        *)
(* corresponding argument.  Stated of the finished parse of a source of    *)
(* two lines, the definition and the use.                                  *)

\* C4: NAME(a1, ..., an) is emitted as BODY with each parameter replaced by
\* its argument
C4_ArgumentSubstitution ==
    LET ls == RefLines(source)
        params == FunctionParams(ls[1])
        args == SplitCommas(UseArgs(ls[2]))
    IN  (/\ pc = "done"
         /\ Len(ls) = 2
         /\ IsFunctionMacroDefine(ls[1])
         /\ IsUse(ls[2])
         /\ UseName(ls[2]) = DefineName(ls[1])
         /\ Len(args) = Len(params))
        => /\ result.success
           /\ result.output = Ptr(RefExpand(Bind(params, args), FunctionBody(ls[1])) \o NL)

----------------------------------------------------------------------------
(* C5: a live "#define NAME(params) BODY" registers NAME as a plain macro  *)
(* with no parameters, the function flag false and BODY, the text after    *)
(* the first ")", as its value; every macro in the table is non-function;  *)
(* and a live use NAME(args) is emitted as BODY followed by "(", the args  *)
(* with the macro names among them replaced by their values, and ")".      *)

C5_Register ==
    LET line == StripAndTrim(ctx, CurrentLine(Top))
        name == DefineName(line)
    IN  (/\ AtLine /\ ~ctx.has_error /\ Live(ctx)
         /\ IsFunctionMacroDefine(line)
         /\ Len(name) < IDENTIFIER_SIZE
         /\ Len(ctx.defines) < VGLSL_MAX_DEFINES)
        => /\ ~ctx'.has_error
           /\ \E i \in 1..Len(ctx'.defines) :
                  ctx'.defines[i] = [name |-> name,
                                     value |-> FunctionBody(line),
                                     params |-> <<>>,
                                     param_count |-> 0,
                                     is_function_macro |-> FALSE]

\* the lines of the source that define name as a function-like macro, when
\* no line defines it otherwise
FunctionDefinesOf(name) ==
    LET ls == RefLines(source)
    IN  IF \E i \in 1..Len(ls) : IsSimpleDefine(ls[i]) /\ DefineName(ls[i]) = name
        THEN {}
        ELSE {ls[i] : i \in {n \in 1..Len(ls) : /\ IsFunctionMacroDefine(ls[n])
                                                /\ DefineName(ls[n]) = name}}

C5_UseStep(Arguments(_, _)) ==
    LET line == StripAndTrim(ctx, CurrentLine(Top))
    IN  (/\ AtLine /\ ~ctx.has_error /\ Live(ctx)
         /\ IsUse(line)
         /\ Defined(ctx, UseName(line))
         /\ WithinLimits(ctx, line))
        => \A def \in FunctionDefinesOf(UseName(line)) :
               IF ctx'.has_error
               THEN ctx'.error_message = Ptr("Output size exceeded maximum limit")
               ELSE ctx'.output = ctx.output \o FunctionBody(def) \o "("
                                    \o Arguments(ctx, UseArgs(line)) \o ")" \o NL

C5_NonFunction ==
    \A i \in 1..Len(ctx.defines) :
        /\ ~ctx.defines[i].is_function_macro
        /\ ctx.defines[i].param_count = 0
        /\ ctx.defines[i].params = <<>>

Unchanged(c, text) == text

----------------------------------------------------------------------------
(* Comments, as section 4.1 of the specification describes them            *)

TwoAt(s, i) == CharAt(s, i) \o CharAt(s, i + 1)

\* quote is "" outside a string literal and else the quote that opened it
QuoteAfter(s, i, quote) ==
    IF quote = ""
    THEN IF CharAt(s, i) \in {"\"", "'"} THEN CharAt(s, i) ELSE ""
    ELSE IF CharAt(s, i) = quote /\ CharAt(s, i - 1) # "\\" THEN "" ELSE quote

FirstClose(s, from) ==
    \* the first position at or after from where "*/" starts, 0 when none
    LET at == {i \in from..Len(s) : TwoAt(s, i) = "*/"}
    IN  IF at = {} THEN 0 ELSE Min(at)

\* one line without its comments: // cuts the line, /* ... */ is cut out,
\* an unterminated /* cuts the line
RECURSIVE RefStripFrom(_, _, _)
RefStripFrom(line, i, quote) ==
    IF i > Len(line) THEN ""
    ELSE IF quote = "" /\ TwoAt(line, i) = "//" THEN ""
    ELSE IF quote = "" /\ TwoAt(line, i) = "/*"
    THEN IF FirstClose(line, i + 2) = 0 THEN ""
         ELSE RefStripFrom(line, FirstClose(line, i + 2) + 2, "")
    ELSE CharAt(line, i) \o RefStripFrom(line, i + 1, QuoteAfter(line, i, quote))

RefStrip(line) == RefStripFrom(line, 1, "")

\* the first position outside a string literal where a comment opens
RECURSIVE CommentStartFrom(_, _, _)
CommentStartFrom(line, i, quote) ==
    IF i > Len(line) THEN 0
    ELSE IF quote = "" /\ TwoAt(line, i) \in {"//", "/*"} THEN i
    ELSE CommentStartFrom(line, i + 1, QuoteAfter(line, i, quote))

CommentStart(line) == CommentStartFrom(line, 1, "")

\* a comment marker stands outside the string literals of the line
RECURSIVE MarkerFrom(_, _, _)
MarkerFrom(line, i, quote) ==
    IF i > Len(line) THEN FALSE
    ELSE IF quote = "" /\ TwoAt(line, i) \in {"//", "/*", "*/"} THEN TRUE
    ELSE MarkerFrom(line, i + 1, QuoteAfter(line, i, quote))

HasMarker(text) ==
    \E n \in 1..Len(RefLines(text)) : MarkerFrom(RefLines(text)[n], 1, "")

\* the text read as a whole, block comments running over line ends: a "*/"
\* stands in it where no block comment is open.  mode is "" in code, "//"
\* in a line comment, "/*" in a block comment, else the open quote.
RECURSIVE StrayCloseFrom(_, _, _)
StrayCloseFrom(text, i, mode) ==
    IF i > Len(text) THEN FALSE
    ELSE IF mode = "/*"
    THEN IF TwoAt(text, i) = "*/" THEN StrayCloseFrom(text, i + 2, "")
         ELSE StrayCloseFrom(text, i + 1, mode)
    ELSE IF CharAt(text, i) = NL THEN StrayCloseFrom(text, i + 1, "")
    ELSE IF mode = "//" THEN StrayCloseFrom(text, i + 1, mode)
    ELSE IF mode = "" /\ TwoAt(text, i) = "*/" THEN TRUE
    ELSE IF mode = "" /\ TwoAt(text, i) \in {"//", "/*"}
    THEN StrayCloseFrom(text, i + 2, TwoAt(text, i))
    ELSE StrayCloseFrom(text, i + 1, QuoteAfter(text, i, mode))

\* no line of the text is a directive, before or after comment removal
DirectiveFree(text) ==
    \A n \in 1..Len(RefLines(text)) :
        /\ CharAt(RefTrim(RefLines(text)[n]), 1) # "#"
        /\ CharAt(RefTrim(RefStrip(RefLines(text)[n])), 1) # "#"

FirstParseDone == pc = "done" /\ pass = 1

----------------------------------------------------------------------------
(* C6: with comment removal enabled, the output of a successful parse has  *)
(* no comment marker (//, /*, */) outside string literals, also when a     *)
(* block comment opens on one line and closes on a later one.  Stated of   *)
(* the sources in which every */ closes a block comment.                   *)

\* C6: no comment marker outside string literals is left in the output of a
\* successful parse with comment removal
C6_NoCommentMarkers ==
    (/\ FirstParseDone
     /\ result.success
     /\ ctx.config.remove_comments
     /\ ~StrayCloseFrom(source, 1, ""))
    => ~HasMarker(result.output[1])

----------------------------------------------------------------------------
(* C7: with remove_comments false, the comment of every emitted line, its  *)
(* marker and its text, is in the output as it is in the source (trailing  *)
(* white space aside): the emitted line ends with it.                      *)

EndsWith(s, tail) ==
    Len(s) >= Len(tail) /\ SubSeq(s, Len(s) - Len(tail) + 1, Len(s)) = tail

C7_Step ==
    LET raw == CurrentLine(Top)
    IN  (/\ AtLine /\ ~ctx.has_error /\ Live(ctx)
         /\ ~ctx.config.remove_comments
         /\ CharAt(RefTrim(raw), 1) # "#"
         /\ CommentStart(raw) # 0
         /\ ~ctx'.has_error)
        => /\ Len(ctx'.output) > Len(ctx.output)
           /\ EndsWith(ctx'.output, RefTrim(From(raw, CommentStart(raw))) \o NL)

\* C7: with remove_comments false an emitted line ends with its comment as
\* written in the source
C7_CommentsVerbatim == [][C7_Step]_vars

----------------------------------------------------------------------------
(* C8: for a source without directive lines, the output of a successful    *)
(* parse is the lines of the source in their order, each without its       *)
(* comments (if comment removal is enabled), without its leading blanks    *)
(* and its trailing white space, and ended by exactly one newline.         *)

RECURSIVE Concat(_)
Concat(texts) == IF texts = <<>> THEN "" ELSE texts[1] \o Concat(Tail(texts))

EmitLines(lines, Strip(_), Trim(_)) ==
    Concat([n \in 1..Len(lines) |-> Trim(Strip(lines[n])) \o NL])

Same(line) == line

C8_Output(Trim(_)) ==
    (FirstParseDone /\ result.success /\ DirectiveFree(source))
    => result.output =
           Ptr(IF ctx.config.remove_comments
               THEN EmitLines(RefLines(source), RefStrip, Trim)
               ELSE EmitLines(RefLines(source), Same, Trim))

----------------------------------------------------------------------------
(* C9: parsing the output of a successful parse of a directive-free source *)
(* again, with the same configuration, succeeds and yields that output.    *)

\* C9: a second parse of the output of a directive-free source succeeds and
\* yields the same text
C9_Idempotent ==
    (pc = "done" /\ pass = 2 /\ DirectiveFree(source))
    => /\ result.success
       /\ result.output = Ptr(stack[1].text)

C9_Witness ==
    /\ pc = "done"
    /\ pass = 2
    /\ source = "  x = 1; \np /* q */ r\n"
    /\ stack[1].text = "x = 1;\np  r\n"
    /\ result.output = Ptr("x = 1;\np  r\n")

----------------------------------------------------------------------------
(* C10: the output is one stream in file order: what an #include emits,    *)
(* the included file's lines in their order and recursively, stands after  *)
(* what the includer's earlier lines emitted and before what its later     *)
(* lines emit.  The "#line" markers of preserve_lines are left aside.      *)

IsInclude(line) == StartsWith(DirectiveText(line), "include")

\* the file an include line names: <V/rest> is real/rest when the registry
\* maps V to real, every other name is looked up under the base path
IncludeTarget(line) ==
    LET d == DirectiveText(line)
        angle == FirstIndex(d, "\"") = 0
        open == IF angle THEN FirstIndex(d, "<") ELSE FirstIndex(d, "\"")
        rest == From(d, open + 1)
        name == SubSeq(rest, 1, FirstIndex(rest, IF angle THEN ">" ELSE "\"") - 1)
        slash == FirstIndex(name, "/")
        hits == {i \in 1..Len(g_virtual_paths) :
                     /\ slash # 0
                     /\ g_virtual_paths[i].virtual_name = SubSeq(name, 1, slash - 1)}
    IN  IF angle /\ hits # {}
        THEN g_virtual_paths[Min(hits)].real_path \o From(name, slash)
        ELSE ctx.config.base_path[1] \o "/" \o name

RECURSIVE RefFlatten(_)
RefFlatten(lines) ==
    IF lines = <<>> THEN ""
    ELSE (IF IsInclude(lines[1])
          THEN IF IncludeTarget(lines[1]) \in DOMAIN Files
               THEN RefFlatten(RefLines(Files[IncludeTarget(lines[1])]))
               ELSE ""
          ELSE lines[1] \o NL)
         \o RefFlatten(Tail(lines))

NotLineMarker(line) == ~StartsWith(line, "#line ")

\* C10: the output is the source with every include line replaced, in place
\* and recursively, by what the included file emits
C10_FileOrder ==
    (FirstParseDone /\ result.success)
    => EmitLines(SelectSeq(RefLines(result.output[1]), NotLineMarker), Same, Same)
           = RefFlatten(RefLines(source))

C10_Witness ==
    /\ FirstParseDone
    /\ source = "a\n#include \"g\"\nb\n"
    /\ ~ctx.config.preserve_lines
    /\ result.output = Ptr("a\np\nu\nv\nq\nb\n")

----------------------------------------------------------------------------
(* C11: when a file is included, the output of the successful parse has    *)
(* the #define lines of the included file in it, as they are written.      *)

Contains(s, t) ==
    \E i \in 1..(Len(s) - Len(t) + 1) : SubSeq(s, i, i + Len(t) - 1) = t

\* C11: every #define line of an included file is part of the output
C11_DefinesEmitted ==
    (FirstParseDone /\ result.success)
    => \A n \in 1..Len(RefLines(source)) :
           LET line == RefLines(source)[n]
           IN  (IsInclude(line) /\ IncludeTarget(line) \in DOMAIN Files)
               => \A m \in 1..Len(RefLines(Files[IncludeTarget(line)])) :
                      LET inner == RefLines(Files[IncludeTarget(line)])[m]
                      IN  IsDefine(inner) => Contains(result.output[1], inner)

-----------------------------------------------------------------------------
(* C12: the file an include reads.  <A/rest> with A a registered alias     *)
(* reads real_prefix(A) followed by /rest; an angle include whose first    *)
(* segment is no alias, and every quoted include, reads base path / name.  *)

\* the include line has an opening " or <, whichever comes first, and the
\* matching closing delimiter after it
WellDelimited(line) ==
    LET d == DirectiveText(line)
        q == FirstIndex(d, "\"")
        a == FirstIndex(d, "<")
    IN  IF q # 0 /\ (a = 0 \/ q < a)
        THEN FirstIndex(From(d, q + 1), "\"") # 0
        ELSE a # 0 /\ FirstIndex(From(d, a + 1), ">") # 0

\* a live include line with both delimiters, met below the depth limit
OpensInclude(line) ==
    /\ IsInclude(line)
    /\ Live(ctx)
    /\ ctx.include_depth < ctx.config.max_include_depth
    /\ WellDelimited(line)

\* the step of such a line either enters the file named by IncludeTarget or
\* reports that this very file could not be read
C12_Step ==
    (AtLine /\ ~ctx.has_error /\ OpensInclude(CurrentLine(Top)))
    => LET target == IncludeTarget(CurrentLine(Top))
       IN  IF target \in DOMAIN Files
           THEN /\ Len(stack') = Len(stack) + 1
                /\ stack'[Len(stack')].filename = target
                /\ stack'[Len(stack')].text = Files[target]
           ELSE /\ Len(stack') = Len(stack)
                /\ ctx'.has_error
                /\ ctx'.error_message = Ptr("Failed to read include file: " \o target)

\* C12: an angle include whose first segment is a registered alias reads
\* real_prefix/rest; any other angle include and every quoted include reads
\* base_path/name
C12_IncludeResolution == [][C12_Step]_vars

\* <V/f> was read from r/f, and then "V/f" was looked up under the base path
C12_Witness ==
    /\ g_virtual_paths = <<[virtual_name |-> "V", real_path |-> "r"]>>
    /\ Contains(ctx.output, "w\n")
    /\ ctx.error_message = Ptr("Failed to read include file: b/V/f")

-----------------------------------------------------------------------------
(* C13: a parse whose input ends, without an earlier error, while a        *)
(* conditional is still open fails with a non-empty message, a line >= 1   *)
(* and no output; a successful parse ends with the conditional stack empty *)

\* the step that builds the Result after the last line of the root
C13_Step ==
    (/\ pc = "parse" /\ pc' = "done"
     /\ ~ctx.has_error /\ Top.success
     /\ ctx.if_depth > 0)
    => /\ ~result'.success
       /\ result'.error_message # NULL
       /\ result'.error_message[1] # ""
       /\ result'.error_line >= 1
       /\ result'.output = NULL

C13_Done == (FirstParseDone /\ result.success) => ctx.if_depth = 0

\* C13: end of input with an open conditional and no earlier error is a
\* failure with message, line >= 1 and no output; success implies depth zero
C13_UnclosedConditional == [][C13_Step]_vars /\ []C13_Done

\* a parse that ended inside "#ifdef D" after reading past its last line
C13_Witness ==
    /\ FirstParseDone
    /\ ctx.if_depth > 0
    /\ Top.line_start > Len(Top.text)
    /\ ~result.success
    /\ result.output = NULL
    /\ result.error_line = Len(RefLines(source)) + 1
    /\ result.error_message = Ptr("Unclosed conditional directive")

-----------------------------------------------------------------------------
(* C14: an #include without an opening " or <, or without the matching     *)
(* closing delimiter, fails the parse with a non-empty message and the     *)
(* line number of that directive, without output and without reading a     *)
(* file for it.                                                            *)

\* the step that processes such a directive sets the error at its line and
\* file, enters no file and reports no read
C14_Step ==
    (/\ AtLine /\ ~ctx.has_error
     /\ IsInclude(CurrentLine(Top))
     /\ ~WellDelimited(CurrentLine(Top)))
    => /\ ctx'.has_error
       /\ ctx'.error_message # NULL
       /\ ctx'.error_message[1] # ""
       /\ ~StartsWith(ctx'.error_message[1], "Failed to read")
       /\ ctx'.error_line = Top.line_num
       /\ ctx'.error_line >= 1
       /\ ctx'.error_file = Ptr(Top.filename)
       /\ Len(stack') = Len(stack)
       /\ ctx'.include_depth = ctx.include_depth

\* the error a step has set stays as it is
C14_Kept ==
    ctx.has_error
    => /\ ctx'.has_error
       /\ ctx'.error_message = ctx.error_message
       /\ ctx'.error_line = ctx.error_line
       /\ ctx'.error_file = ctx.error_file

\* and it is what the parse returns, without output
C14_Done ==
    (FirstParseDone /\ ctx.has_error)
    => /\ ~result.success
       /\ result.output = NULL
       /\ result.error_message = ctx.error_message
       /\ result.error_line = ctx.error_line
       /\ result.error_file = ctx.error_file

\* C14: an include with a missing opening or closing delimiter fails the
\* parse with a non-empty message, that directive's line number (>= 1) and
\* no output, and no file is read for it
C14_MalformedInclude ==
    [][C14_Step /\ (pc' = "parse" => C14_Kept)]_vars /\ []C14_Done

\* the unterminated include on line 2 of the included file b/e was reported
C14_Witness ==
    /\ FirstParseDone
    /\ ~result.success
    /\ result.output = NULL
    /\ result.error_message = Ptr("Unterminated include filename")
    /\ result.error_line = 2
    /\ result.error_file = Ptr("b/e")

-----------------------------------------------------------------------------
(* C15: a #define whose parameter list is opened and not closed on the     *)
(* line makes the parse fail, with a message and an error line above zero. *)

\* a parse entry point has returned result, and its owner still holds it
ResultReturned == FirstParseDone /\ freed = <<>>

\* "#define NAME(" with no ")" after it
IsUnclosedDefine(line) ==
    IsFunctionDefine(line) /\ FirstIndex(DefineTail(line), ")") = 0

\* C15: the Result of a source with a #define whose parameter list is never
\* closed has success false, a non-null message and an error line > 0
C15_UnclosedDefineFails ==
    (/\ ResultReturned
     /\ \E n \in 1..Len(RefLines(source)) : IsUnclosedDefine(RefLines(source)[n]))
    => /\ ~result.success
       /\ result.error_message # NULL
       /\ result.error_line > 0

-----------------------------------------------------------------------------
(* C16: a returned Result has exactly one side populated.                  *)

\* C16: a successful Result has an output, no message, no file and line 0;
\* a failed Result has no output and has a message
C16_OneSidePopulated ==
    ResultReturned
    => IF result.success
       THEN /\ result.output # NULL
            /\ result.error_message = NULL
            /\ result.error_file = NULL
            /\ result.error_line = 0
       ELSE /\ result.output = NULL
            /\ result.error_message # NULL

\* a parse that had appended output before it failed: the output is dropped
C16_Witness ==
    /\ ResultReturned
    /\ ~result.success
    /\ ctx.output # ""
    /\ result.output = NULL
    /\ result.error_message # NULL

-----------------------------------------------------------------------------
(* C17: a failed Result carries a line and a file.                         *)

\* C17: every non-success Result, whatever the kind of error, has an error
\* line >= 1 and a non-null originating file name
C17_ErrorsLocated ==
    (ResultReturned /\ ~result.success)
    => /\ result.error_line >= 1
       /\ result.error_file # NULL

-----------------------------------------------------------------------------
(* C18: first error wins.  Once the error is set its message, line and     *)
(* file do not change, no further line appends to the output or changes    *)
(* the macro table or the conditional stack, and the Result reports that   *)
(* error.                                                                  *)

\* a step that processes a line, in the root or in an included file
LineStep == pc = "parse" /\ pc' = "parse" /\ Len(stack') >= Len(stack)

C18_ErrorKept ==
    /\ ctx'.has_error
    /\ ctx'.error_message = ctx.error_message
    /\ ctx'.error_line = ctx.error_line
    /\ ctx'.error_file = ctx.error_file

C18_TablesKept ==
    /\ ctx'.defines = ctx.defines
    /\ ctx'.if_depth = ctx.if_depth
    /\ ctx'.if_stack = ctx.if_stack
    /\ ctx'.if_taken = ctx.if_taken

C18_Reported ==
    /\ ~result'.success
    /\ result'.output = NULL
    /\ result'.error_message = ctx.error_message
    /\ result'.error_line = ctx.error_line
    /\ result'.error_file = ctx.error_file

C18_Step ==
    (pc = "parse" /\ ctx.has_error)
    => /\ C18_ErrorKept
       /\ C18_TablesKept
       /\ LineStep => ctx'.output = ctx.output
       /\ pc' = "done" => C18_Reported

\* C18: after the error is set, no step changes its message, line or file,
\* the macro table or the conditional stack, no line appends to the output,
\* and the Result carries that error
C18_FirstErrorWins == [][C18_Step]_vars

\* the error was set inside the included file b/g, and the parse has since
\* returned to the line loop of the including source
C18_Witness ==
    /\ pc = "parse"
    /\ ctx.has_error
    /\ ctx.error_file = Ptr("b/g")
    /\ Len(stack) = 1
    /\ Top.filename = "t"

-----------------------------------------------------------------------------
(* C19: vglsl_free_result is idempotent.                                   *)

\* C19: after one call on a returned Result, successful or failed, output,
\* error_message and error_file are null, success is false and error_line
\* is 0; a second call leaves that state and releases nothing
C19_FreeIdempotent ==
    Len(freed) >= 1
    => /\ result.output = NULL
       /\ result.error_message = NULL
       /\ result.error_file = NULL
       /\ ~result.success
       /\ result.error_line = 0
       /\ \A k \in 2..Len(freed) : freed[k] = {}

\* a failed Result with message and file, freed twice
C19_Witness ==
    /\ freed = <<{"error_message", "error_file"}, {}>>
    /\ result = ZeroResult

-----------------------------------------------------------------------------
(* C20: adding an alias that is already registered replaces its target in  *)
(* place, in every state of the registry, the full one included.           *)

\* C20: in every reachable registry, for every registered alias and every
\* path p, add_virtual_include_path(alias, p) leaves the number and the
\* order of the entries as they are and makes p the target of that alias
C20_ReAddUpdates ==
    \A i \in 1..Len(g_virtual_paths) : \A p \in RealPaths :
        LET after == vglsl_add_virtual_include_path(
                         g_virtual_paths, Ptr(g_virtual_paths[i].virtual_name), Ptr(p))
        IN  /\ Len(after) = Len(g_virtual_paths)
            /\ \A j \in 1..Len(after) :
                   /\ after[j].virtual_name = g_virtual_paths[j].virtual_name
                   /\ after[j].real_path =
                          IF j = i THEN p ELSE g_virtual_paths[j].real_path

-----------------------------------------------------------------------------
(* C21: a #define of a name that is already defined replaces the value of  *)
(* that macro, in every state of the table, the full one included.         *)

C21_Step ==
    (AtLine /\ ~ctx.has_error /\ Live(ctx)) =>
        LET line == StripAndTrim(ctx, CurrentLine(Top))
            name == DefineName(line)
        IN  (IsSimpleDefine(line) /\ Defined(ctx, name)) =>
                /\ ~ctx'.has_error
                /\ Len(ctx'.defines) = Len(ctx.defines)
                /\ Cardinality({i \in 1..Len(ctx'.defines) :
                                    ctx'.defines[i].name = name}) = 1
                /\ ValueOf(ctx', name) = RefTrim(DefineTail(line))

\* C21: a #define of an already defined name succeeds, leaves the number of
\* macros as it is, keeps the name once and gives it the new value
C21_RedefineReplaces == [][C21_Step]_vars

-----------------------------------------------------------------------------
(* C22: the accumulated output, with its terminator, never needs more than *)
(* max_output_size bytes, and no successful Result is longer than that.    *)

\* C22: for every configured max_output_size the output accumulated so far
\* and the output of a successful Result fit in max_output_size bytes,
\* terminator included
C22_OutputWithinCap ==
    /\ Len(ctx.output) + 1 <= ctx.config.max_output_size
    /\ (FirstParseDone /\ result.success)
       => Len(result.output[1]) + 1 <= ctx.config.max_output_size

-----------------------------------------------------------------------------
(* C23: a non-directive line is appended to the output iff every frame on  *)
(* the conditional stack is active, whatever the nesting depth.            *)

C23_Step ==
    (AtLine /\ ~ctx.has_error) =>
        LET line == StripAndTrim(ctx, CurrentLine(Top))
        IN  (CharAt(line, 1) # "#" /\ WithinLimits(ctx, line) /\ ~ctx'.has_error) =>
                IF \A i \in 1..ctx.if_depth : ctx.if_stack[i]
                THEN ctx'.output = ctx.output \o RefExpand(ctx, line) \o NL
                ELSE ctx'.output = ctx.output

\* C23: a non-directive line is emitted when all open frames are active and
\* suppressed when any of them, at any depth, is inactive
C23_LiveIffAllActive == [][C23_Step]_vars

\* the line a, met in the active #else group of an inner frame whose
\* enclosing frame is inactive, was suppressed
C23_Witness ==
    /\ source = "#ifdef D\n#ifdef D\n#else\na\n"
    /\ pc = "parse"
    /\ Top.line_start > Len(Top.text)
    /\ ctx.if_depth = 2
    /\ ~ctx.if_stack[1]
    /\ ctx.if_stack[2]
    /\ ctx.output = ""

-----------------------------------------------------------------------------
(* C24: expansion is a single pass.  A use of a macro whose value holds    *)
(* the name of a defined macro is emitted as the stored value, the name in *)
(* it left as it stands, whatever the order of the two definitions.        *)

\* some macro used in text has a value that names a macro of the table
UsesNestedMacro(c, text) ==
    \E id \in RefIdentifiers(text) :
        /\ Defined(c, id)
        /\ \E inner \in RefIdentifiers(ValueOf(c, id)) : Defined(c, inner)

C24_Step ==
    (AtLine /\ ~ctx.has_error /\ Live(ctx)) =>
        LET line == StripAndTrim(ctx, CurrentLine(Top))
        IN  (/\ CharAt(line, 1) # "#"
             /\ UsesNestedMacro(ctx, line)
             /\ ~ctx'.has_error)
            => ctx'.output = ctx.output \o RefExpand(ctx, line) \o NL

\* C24: a live use of a macro whose value names a defined macro (or itself)
\* emits the stored value with that name left literally in it
C24_SinglePass == [][C24_Step]_vars

\* A's value B stayed B in the output although B is defined as 1
C24_Witness ==
    /\ FirstParseDone
    /\ source = "#define A B\n#define B 1\nA+B;\n"
    /\ result.success
    /\ result.output = Ptr("B+1;\n")

-----------------------------------------------------------------------------
(* C25: where some open frame is inactive, every line other than #ifdef,   *)
(* #ifndef, #else and #endif is suppressed: the macro table stays as it    *)
(* is, no file is read and nothing is appended to the output.              *)

C25_Step ==
    (AtLine /\ ~ctx.has_error /\ ~Live(ctx)) =>
        LET line == StripAndTrim(ctx, CurrentLine(Top))
        IN  (~IsIfdef(line) /\ ~IsIfndef(line) /\ ~IsElse(line) /\ ~IsEndif(line))
            => /\ ctx'.defines = ctx.defines
               /\ ctx'.output = ctx.output
               /\ Len(stack') = Len(stack)
               /\ ~ctx'.has_error

\* C25: at a position that is not live, a #define or #undef leaves the macro
\* table unchanged, an #include reads and emits nothing, and any other line,
\* unknown directives included, appends nothing
C25_DeadLinesSuppressed == [][C25_Step]_vars

-----------------------------------------------------------------------------
(* C26: the conditional depth stays within the frame arrays; it grows by   *)
(* one on a successful #ifdef/#ifndef only, shrinks by one on a successful *)
(* #endif only, and an #ifdef/#ifndef at the depth limit is an error.      *)

\* the deepest frame the arrays if_stack and if_taken can hold (63 of 64)
DepthLimit == IF_STACK_SIZE - 1

C26_InBounds ==
    /\ ctx.if_depth \in 0..DepthLimit
    /\ \A i \in 0..ctx.if_depth : i \in DOMAIN ctx.if_stack /\ i \in DOMAIN ctx.if_taken

C26_Step ==
    IF AtLine /\ ~ctx.has_error
    THEN LET line == StripAndTrim(ctx, CurrentLine(Top))
         IN  IF IsIfdef(line) \/ IsIfndef(line)
             THEN IF ctx.if_depth < DepthLimit
                  THEN ctx'.if_depth = ctx.if_depth + 1 /\ ~ctx'.has_error
                  ELSE /\ ctx'.if_depth = ctx.if_depth
                       /\ ctx'.has_error
                       /\ ctx'.error_message # NULL
                       /\ ctx'.if_stack = ctx.if_stack
             ELSE IF IsEndif(line) /\ ctx.if_depth > 0
             THEN ctx'.if_depth = ctx.if_depth - 1 /\ ~ctx'.has_error
             ELSE ctx'.if_depth = ctx.if_depth
    ELSE ctx'.if_depth = ctx.if_depth

\* C26: the depth is always within 0..limit, so within the frame arrays; a
\* successful #ifdef/#ifndef adds one, a successful #endif takes one off, no
\* other line or step changes it, and #ifdef/#ifndef at the limit fails
C26_DepthDiscipline == [][C26_Step]_vars /\ []C26_InBounds

\* an #ifdef met with the stack at its limit was refused
C26_Witness ==
    /\ ctx.if_depth = DepthLimit
    /\ ctx.has_error
    /\ ctx.error_message = Ptr("Too many nested conditionals")
    /\ ctx.error_line = DepthLimit + 1

-----------------------------------------------------------------------------
(* C27: #else and #endif without an open frame fail at their line and      *)
(* leave the depth at zero; with a frame open #else makes the top frame    *)
(* active iff its branch was not taken and changes nothing else, so a      *)
(* second #else leaves the frame as the first one set it.                  *)

C27_Step ==
    (AtLine /\ ~ctx.has_error) =>
        LET line == StripAndTrim(ctx, CurrentLine(Top))
            top == ctx.if_depth
        IN  /\ ((IsElse(line) \/ IsEndif(line)) /\ top = 0) =>
                   /\ ctx'.has_error
                   /\ ctx'.error_message # NULL
                   /\ ctx'.error_line = Top.line_num
                   /\ ctx'.error_file = Ptr(Top.filename)
                   /\ ctx'.if_depth = 0
            /\ (IsElse(line) /\ top > 0) =>
                   /\ ~ctx'.has_error
                   /\ ctx'.if_depth = top
                   /\ ctx'.if_taken = ctx.if_taken
                   /\ ctx'.if_stack[top] = ~ctx.if_taken[top]
                   /\ \A i \in 1..(top - 1) : ctx'.if_stack[i] = ctx.if_stack[i]
                   /\ ctx'.output = ctx.output

\* an #else that was already applied to the top frame
C27_SecondElseKeeps ==
    (AtLine /\ ~ctx.has_error /\ ctx.if_depth > 0
     /\ IsElse(StripAndTrim(ctx, CurrentLine(Top)))
     /\ ctx.if_stack[ctx.if_depth] = ~ctx.if_taken[ctx.if_depth])
    => ctx'.if_stack = ctx.if_stack

\* C27: a stray #else or #endif is an error at its line with the depth left
\* at zero; #else in an open frame sets branch_active to the negation of
\* branch_taken, keeps branch_taken and the depth, and is idempotent
C27_ElseEndif ==
    /\ [][/\ C27_Step
          /\ C27_SecondElseKeeps
          /\ (pc = "parse" /\ ctx.has_error) => C18_ErrorKept]_vars
    /\ [](FirstParseDone /\ ctx.has_error
           => /\ ~result.success
              /\ result.error_line = ctx.error_line
              /\ result.error_file = ctx.error_file)

\* the second #else of the frame has been processed: the frame, whose test
\* failed, is still active
C27_Witness ==
    /\ source = "#ifdef D\n#else\n#else\na\n"
    /\ pc = "parse"
    /\ Top.line_num = 4
    /\ ctx.if_depth = 1
    /\ ctx.if_stack[1]
    /\ ~ctx.if_taken[1]
    /\ ~ctx.has_error

-----------------------------------------------------------------------------
(* C28: the include depth stays within 0..max_include_depth; an #include   *)
(* met at the maximum fails before any file is read, and when an #include  *)
(* has been processed the depth is what it was before it.                  *)

\* the depth counts the includes that are being processed
C28_InRange ==
    /\ ctx.include_depth \in 0..ctx.config.max_include_depth
    /\ ctx.include_depth = Len(stack) - 1

C28_Step ==
    /\ ctx'.include_depth - ctx.include_depth = Len(stack') - Len(stack)
    /\ (/\ AtLine /\ ~ctx.has_error
        /\ IsInclude(StripAndTrim(ctx, CurrentLine(Top)))
        /\ ctx.include_depth = ctx.config.max_include_depth)
       => /\ Len(stack') = Len(stack)
          /\ ctx'.has_error
          /\ ctx'.error_message = Ptr("Maximum include depth exceeded")
          /\ ctx'.error_line = Top.line_num
          /\ ctx'.error_file = Ptr(Top.filename)

\* C28: the include depth is within 0..max_include_depth and equals the
\* number of includes being processed, so it is back at its earlier value
\* when an #include returns, with or without success; an #include at the
\* maximum depth is refused before the file is read
C28_IncludeDepth == [][C28_Step]_vars /\ []C28_InRange

\* b/m was entered at the maximum depth 1; its include of the unreadable n
\* was refused for the depth, not for the read, and the depth is back at 0
C28_Witness ==
    /\ pc = "parse"
    /\ Len(stack) = 1
    /\ ctx.include_depth = 0
    /\ ctx.config.max_include_depth = 1
    /\ ctx.error_message = Ptr("Maximum include depth exceeded")
    /\ ctx.error_file = Ptr("b/m")

-----------------------------------------------------------------------------
(* C29: every parse returns a Result, and a parse that runs into an        *)
(* include cycle ends without success: on the include depth limit when     *)
(* the cycle gets that far, on the first other error when one comes        *)
(* before.                                                                 *)

\* the loop is about to process an #include of a file that is being
\* processed already
CycleClosing ==
    /\ AtLine /\ ~ctx.has_error
    /\ LET line == StripAndTrim(ctx, CurrentLine(Top))
       IN  /\ IsInclude(line)
           /\ WellDelimited(line)
           /\ \E i \in 1..Len(stack) : stack[i].filename = IncludeTarget(line)

\* the parse is over and has failed
CycleEnded ==
    /\ FirstParseDone
    /\ ~result.success
    /\ result.output = NULL
    /\ result.error_message # NULL

CycleRefused ==
    /\ CycleEnded
    /\ result.error_message = Ptr("Maximum include depth exceeded")

\* an #include that closes a cycle is refused at the depth limit and enters
\* the file once more below it
C29_Step ==
    CycleClosing
    => IF ctx.include_depth = ctx.config.max_include_depth
       THEN /\ Len(stack') = Len(stack)
            /\ ctx'.error_message = Ptr("Maximum include depth exceeded")
       ELSE /\ Len(stack') = Len(stack) + 1
            /\ ctx'.include_depth = ctx.include_depth + 1
            /\ stack'[Len(stack')].filename
                   = IncludeTarget(StripAndTrim(ctx, CurrentLine(Top)))

-----------------------------------------------------------------------------
(* C30: the conditional stack is shared across include boundaries and is   *)
(* not checked when an included file ends.                                 *)

\* the end of an included file leaves the conditional stack as it is and
\* reports nothing about it
C30_Return ==
    Len(stack') < Len(stack)
    => /\ ctx'.if_depth = ctx.if_depth
       /\ ctx'.if_stack = ctx.if_stack
       /\ ctx'.if_taken = ctx.if_taken
       /\ ctx'.error_message
              \in {ctx.error_message, Ptr("Output size exceeded maximum limit")}

\* an open conditional is reported by the end of the top-level parse only,
\* against the top-level file
C30_Reported ==
    (/\ ctx'.error_message = Ptr("Unclosed conditional directive")
     /\ ctx.error_message # ctx'.error_message)
    => /\ Len(stack) = 1
       /\ pc' = "done"
       /\ ctx.if_depth > 0
       /\ ctx'.error_file = Ptr(stack[1].filename)
       /\ ctx'.error_line = stack[1].line_num

\* a line that is no directive emits nothing while a frame is inactive,
\* whichever file opened the frame
C30_Gated ==
    (/\ AtLine
     /\ ~Live(ctx)
     /\ CharAt(StripAndTrim(ctx, CurrentLine(Top)), 1) # "#")
    => ctx'.output = ctx.output

\* #endif pops the top frame, whichever file opened it
C30_Pop ==
    (/\ AtLine /\ ~ctx.has_error
     /\ DirectiveText(StripAndTrim(ctx, CurrentLine(Top))) = "endif"
     /\ ctx.if_depth > 0)
    => /\ ctx'.if_depth = ctx.if_depth - 1
       /\ ~ctx'.has_error

\* when the top-level parse ends with frames open and no earlier error, the
\* Result is the failure "Unclosed conditional directive"
C30_AtEnd ==
    (pc' = "done" /\ pc = "parse" /\ ~ctx.has_error /\ ctx.if_depth > 0)
    => /\ ~result'.success
       /\ result'.output = NULL
       /\ result'.error_message = Ptr("Unclosed conditional directive")
       /\ result'.error_file = Ptr(stack[1].filename)

C30_Step == C30_Return /\ C30_Reported /\ C30_Gated /\ C30_Pop /\ C30_AtEnd

\* C30: the end of an included file neither changes the conditional stack
\* nor raises an error for a frame the file left open; the frame gates the
\* includer's following lines; an open frame is reported as "Unclosed
\* conditional directive" by the end of the top-level parse only; and an
\* #endif in an included file pops the top frame although the includer
\* opened it
C30_SharedStack == [][C30_Step]_vars

\* o opens #ifdef U and ends; the x after the include was suppressed and the
\* parse has ended with the unclosed conditional reported against the source
C30_Witness ==
    /\ FirstParseDone
    /\ source = "#include \"o\"\nx\n"
    /\ ~ctx.config.preserve_lines
    /\ ctx.output = ""
    /\ ctx.if_depth = 1
    /\ result.error_message = Ptr("Unclosed conditional directive")
    /\ result.error_file = Ptr("t")

-----------------------------------------------------------------------------
(* C31: a line whose length reaches VGLSL_MAX_LINE_LENGTH makes the parse  *)
(* fail with an error naming that line, in the top-level source and in an  *)
(* included file alike.                                                    *)

\* a loop iteration is about to meet a line that does not fit line_buffer
AtLongLine ==
    /\ pc = "parse"
    /\ Top.line_start <= Len(Top.text)
    /\ Top.success
    /\ ~ctx.has_error
    /\ LineLength(Top) >= VGLSL_MAX_LINE_LENGTH

C31_Step ==
    AtLongLine
    => /\ ctx'.has_error
       /\ ctx'.error_message = Ptr("Line too long")
       /\ ctx'.error_line = Top.line_num
       /\ ctx'.error_file = Ptr(Top.filename)

\* C31: the step that meets a line of VGLSL_MAX_LINE_LENGTH characters or
\* more records "Line too long" with the line's number and file, whichever
\* loop meets it, so no parse that met such a line ends in success
C31_LongLineFails == [][C31_Step]_vars

-----------------------------------------------------------------------------
(* C32: macro expansion never truncates silently: a line whose complete    *)
(* expansion needs more than VGLSL_MAX_LINE_LENGTH - 1 characters fails    *)
(* with "Macro expansion failed" at that line, and a line that is emitted  *)
(* is emitted as its complete expansion.                                   *)

C32_Step ==
    (AtLine /\ ~ctx.has_error /\ Live(ctx)) =>
        LET line == StripAndTrim(ctx, CurrentLine(Top))
            full == RefExpand(ctx, line)
        IN  CharAt(line, 1) # "#"
            => IF Len(full) > VGLSL_MAX_LINE_LENGTH - 1
               THEN /\ ctx'.has_error
                    /\ ctx'.error_message = Ptr("Macro expansion failed")
                    /\ ctx'.error_line = Top.line_num
                    /\ ctx'.error_file = Ptr(Top.filename)
                    /\ ctx'.output = ctx.output
               ELSE ~ctx'.has_error => ctx'.output = ctx.output \o full \o NL

\* C32: a live line whose complete expansion is longer than the expansion
\* buffer holds (VGLSL_MAX_LINE_LENGTH - 1 characters) sets "Macro expansion
\* failed" at its line and emits nothing, also when the expansion fills the
\* buffer exactly with input left over; any other live line that raises no
\* error emits its complete expansion
C32_NoSilentTruncation == [][C32_Step]_vars

-----------------------------------------------------------------------------
(* C33: the virtual path registry holds no alias twice and at most         *)
(* VGLSL_MAX_VIRTUAL_PATHS entries, in the order of their first insertion; *)
(* remove deletes the entry of its alias and nothing else, clear empties.  *)

AliasesOf(paths) == {paths[i].virtual_name : i \in 1..Len(paths)}

\* the entries of paths whose alias is in S, in their order
Restrict(paths, S) ==
    LET Kept(e) == e.virtual_name \in S
    IN  SelectSeq(paths, Kept)

C33_Unique ==
    /\ Len(g_virtual_paths) \in 0..VGLSL_MAX_VIRTUAL_PATHS
    /\ \A i, j \in 1..Len(g_virtual_paths) :
           g_virtual_paths[i].virtual_name = g_virtual_paths[j].virtual_name => i = j

\* what remove and clear do to the registry of this state
C33_Remove ==
    /\ \A a \in Aliases :
           vglsl_remove_virtual_include_path(g_virtual_paths, Ptr(a))
               = Restrict(g_virtual_paths, AliasesOf(g_virtual_paths) \ {a})
    /\ vglsl_remove_virtual_include_path(g_virtual_paths, NULL) = g_virtual_paths
    /\ vglsl_clear_virtual_include_paths(g_virtual_paths) = <<>>

\* a call never reorders: the aliases that stay keep their order, a new alias
\* goes to the end, and the entries that stay when some leave are unchanged
C33_Step ==
    LET old == AliasesOf(g_virtual_paths)
        new == AliasesOf(g_virtual_paths')
        names(p) == [i \in 1..Len(p) |-> p[i].virtual_name]
    IN  /\ names(Restrict(g_virtual_paths, new)) = names(Restrict(g_virtual_paths', old))
        /\ Cardinality(new \ old) <= 1
        /\ new \ old # {}
           => /\ g_virtual_paths'[Len(g_virtual_paths')].virtual_name \in new \ old
              /\ old \subseteq new
        /\ old \ new # {}
           => /\ g_virtual_paths' = Restrict(g_virtual_paths, new)
              /\ Cardinality(old \ new) = 1 \/ new = {}

\* C33: in every state of the registry no alias appears twice and the number
\* of entries is within 0..VGLSL_MAX_VIRTUAL_PATHS; every call keeps the
\* order of the entries that stay and puts a new alias last; remove of a
\* registered alias yields the registry without that entry, remove of an
\* unregistered alias or of NULL yields the registry itself, and clear
\* yields the empty registry
C33_RegistryOrdered == [][C33_Step]_vars /\ [](C33_Unique /\ C33_Remove)

\* a full registry in an order that is not alphabetical, from which the
\* removal of the middle alias leaves the outer two in their order
C33_Witness ==
    /\ Len(g_virtual_paths) = VGLSL_MAX_VIRTUAL_PATHS
    /\ g_virtual_paths[1].virtual_name = "W"
    /\ g_virtual_paths[2].virtual_name = "V"
    /\ g_virtual_paths[3].virtual_name = "T"
    /\ vglsl_remove_virtual_include_path(g_virtual_paths, Ptr("V"))
           = <<g_virtual_paths[1], g_virtual_paths[3]>>

-----------------------------------------------------------------------------
(* C34: #else and #endif are recognised with a trailing comment, whether   *)
(* remove_comments is set or not.                                          *)

\* the line as it reads without its comments
Uncommented(line) == vglsl_trim_whitespace(vglsl_remove_comments(line))

C34_Step ==
    (AtLine /\ ~ctx.has_error /\ ctx.if_depth > 0) =>
        LET line == Uncommented(CurrentLine(Top))
        IN  /\ IsEndif(line)
               => /\ ctx'.if_depth = ctx.if_depth - 1
                  /\ ~ctx'.has_error
                  /\ ctx'.output = ctx.output
            /\ IsElse(line)
               => /\ ctx'.if_depth = ctx.if_depth
                  /\ ctx'.if_stack[ctx.if_depth] = ~ctx.if_taken[ctx.if_depth]
                  /\ ~ctx'.has_error
                  /\ ctx'.output = ctx.output

\* a parse that closed every frame it opened, counting the commented
\* directives, does not end on an unclosed conditional
C34_Balanced ==
    FirstParseDone /\ source = "#ifdef D\n#endif // D\n"
    => result.success

\* C34: under either value of remove_comments, an #endif line with or
\* without a trailing comment pops the current frame and an #else line with
\* or without a trailing comment sets the frame to the branch not taken;
\* neither emits anything or raises an error while a frame is open
C34_CommentedDirectives == [][C34_Step]_vars /\ []C34_Balanced

=============================================================================
